---- MODULE Spec2Model ----
(***************************************************************************)
(* A model of the JudgeMental-AI planning and judging engine:              *)
(*   - runStressTest and getDiffInMinutes      (src/utils.ts)              *)
(*   - getProjectStatus                        (src/utils.ts)              *)
(*   - generateAssignments                     (ProjectManager.tsx)        *)
(* Timestamps are the values of datetime-local inputs: either empty or a   *)
(* minute-precision instant.  An empty value is the empty tuple, a set     *)
(* value the one-element tuple holding its minute count; optional values   *)
(* (noShow, a stored result, a NaN from parseInt) use the same encoding.   *)
(***************************************************************************)
EXTENDS Integers, Sequences, FiniteSets, TLC

VARIABLES
    data,            \* the active event record (HackathonData)
    result,          \* App's stored StressTestResult: <<>> or <<res>>
    statuses,        \* LiveDashboard's project grid at its last render
    assignRounds,    \* ProjectManager's "Rounds per Project" input
    pc,              \* position of generateAssignments: idle/assigning/done
    activeProjects,  \* generateAssignments: the sorted active projects
    projIdx,         \* generateAssignments: index of the current project
    round,           \* generateAssignments: the round counter r
    assignments,     \* generateAssignments: the local assignment list
    judgeLoad,       \* generateAssignments: judge id -> load
    judgeLastTable,  \* generateAssignments: judge id -> last table number
    alertMsg,        \* the last alert() shown: <<>> or <<message>>
    activeCategory,  \* LiveDashboard's category filter: <<>> (null) or <<name>>
    leaderboard,     \* LiveDashboard's leaderboard at its last render
    events,          \* App's events: every stored event record
    activeEventId,   \* App: <<>> or <<id of the selected event>>
    userRole,        \* App: <<>> or <<"MLH" | "ADMIN" | "JUDGE" | "HACKER">>
    loggedInUser,    \* App: <<>> or <<[name, id]>>
    authStep,        \* App: the step of the login flow
    selectedRoleForLogin,  \* App: <<>> or <<the role picked at ROLE_SELECT>>
    loginName,       \* App: the name chosen in the login form
    loginPhone,      \* App: the password typed in the login form
    activeJudge,     \* JudgePortal: <<>> or <<the judge whose portal is open>>
    selectedProject, \* JudgePortal: <<>> or <<the project being scored>>
    scoreForm,       \* JudgePortal's scores state: criterion id -> value
    now,             \* the clock Date.now() reads
    reads            \* file reads in flight, each with the props it closed over

\* App's session and login form
sessionVars == <<activeEventId, userRole, loggedInUser, authStep,
                 selectedRoleForLogin, loginName, loginPhone>>

\* JudgePortal's local state
portalVars == <<activeJudge, selectedProject, scoreForm>>

appVars == <<sessionVars, portalVars, now, reads>>

vars == <<data, result, statuses, assignRounds, pc, activeProjects,
          projIdx, round, assignments, judgeLoad, judgeLastTable,
          alertMsg, activeCategory, leaderboard, events, appVars>>

viewVars == <<activeCategory, leaderboard>>

passVars == <<pc, activeProjects, projIdx, round, assignments, judgeLoad,
              judgeLastTable>>

----------------------------------------------------------------------------
(* Bounds of the model *)

MaxJudges == 2
MaxProjects == 2
MaxRounds == 2
MaxTables == 3
MaxScores == 3

----------------------------------------------------------------------------
(* Generic helpers *)

None == <<>>
Some(x) == <<x>>

Abs(x) == IF x < 0 THEN -x ELSE x

\* Math.ceil(num / den) for den > 0
Ceil(num, den) == -((-num) \div den)

RECURSIVE Gcd(_, _)
Gcd(a, b) == IF b = 0 THEN a ELSE Gcd(b, a % b)

\* the real number num / den (den > 0), in lowest terms
Ratio(num, den) ==
    LET g == Gcd(Abs(num), den)
    IN  [num |-> num \div g, den |-> den \div g]

RatioLess(q, k) == q.num < k * q.den

Indices(s) == [i \in 1..Len(s) |-> i]

----------------------------------------------------------------------------
(* types.ts *)

RoleDevpost == "Devpost Help"
RoleClearing == "Clearing Tables"
RoleTables == "Assigning Table Numbers / No Shows"
RoleOrientation == "Judging Orientation / Help Desk"
RoleSlides == "Closing Slides Creator"

\* Object.values(OrganizerRoleType), in declaration order
OrganizerRoleType ==
    <<RoleDevpost, RoleClearing, RoleTables, RoleOrientation, RoleSlides>>

DefaultJudgeCount == 15

DefaultJudge(i) ==
    [id |-> "default-judge-" \o ToString(i),
     name |-> "Judge " \o ToString(i),
     phone |-> "1234567890"]

DEFAULT_JUDGES == [i \in 1..DefaultJudgeCount |-> DefaultJudge(i)]

DEFAULT_ORGANIZERS ==
    [i \in 1..Len(OrganizerRoleType) |->
        [name |-> "", phone |-> "", email |-> "", role |-> OrganizerRoleType[i]]]

Criterion(id, name, weight) == [id |-> id, name |-> name, weight |-> weight]

DEFAULT_CRITERIA ==
    <<Criterion("1", "Completion", Some(1)), Criterion("2", "Originality", Some(1)),
      Criterion("3", "Learning", Some(1)), Criterion("4", "Design", Some(1)),
      Criterion("5", "Technology", Some(1))>>

\* HackathonData carries the id App.tsx finds events by; the template's is empty
INITIAL_DATA ==
    [id |-> "",
     estimatedCheckIns |-> 0,
     softDeadline |-> None, hardDeadline |-> None, judgeArrival |-> None,
     judgeOrientation |-> None, judgingStart |-> None, judgingEnd |-> None,
     judgingDeliberations |-> None, closingCeremony |-> None,
     venueHardCutoff |-> None,
     tableCount |-> 0,
     judgesPerProject |-> 3,
     judges |-> DEFAULT_JUDGES,
     organizers |-> DEFAULT_ORGANIZERS,
     organizerCategories |-> <<>>,
     criteria |-> DEFAULT_CRITERIA,
     projects |-> <<>>, scores |-> <<>>, assignments |-> <<>>, reports |-> <<>>,
     tableMapImages |-> <<>>]

----------------------------------------------------------------------------
(* utils.ts: getDiffInMinutes *)

MsPerMinute == 60000

\* new Date(s).getTime() of a set datetime-local value
getTime(t) == t[1] * MsPerMinute

getDiffInMinutes_abs(start, end) ==
    IF start = None \/ end = None THEN 0
    ELSE Abs(getTime(end) - getTime(start)) \div MsPerMinute

getDiffInMinutes(start, end) ==
    IF start = None \/ end = None THEN 0
    ELSE (getTime(end) - getTime(start)) \div MsPerMinute

----------------------------------------------------------------------------
(* utils.ts: runStressTest *)

MinTimePerProject == 5
MinArrivalGap == 30
MinHourGap == 60
HardDeadlineMargin == 5
MinJudgingTime == 90
MinRounds == 2
PeoplePerProject == 5

Err(code, subject) == [code |-> code, subject |-> subject]

effectiveJudges_floor(d) == (Len(d.judges) * 8) \div 10

\* Math.ceil(rawJudges * 0.8)
effectiveJudges(d) == Ceil(Len(d.judges) * 8, 10)

\* Math.ceil((data.estimatedCheckIns || 0) / 5)
projectedProjects(d) == Ceil(d.estimatedCheckIns, PeoplePerProject)

totalJudgingTime(d) == getDiffInMinutes(d.judgingStart, d.judgingEnd)

timePerProject(d) ==
    IF projectedProjects(d) > 0 /\ d.judgesPerProject > 0
    THEN Ratio(effectiveJudges(d) * totalJudgingTime(d),
               projectedProjects(d) * d.judgesPerProject)
    ELSE Ratio(0, 1)

requiredTables_floor(d) == (projectedProjects(d) * 13) \div 10

\* Math.ceil(projectedProjects * 1.3)
requiredTables(d) == Ceil(projectedProjects(d) * 13, 10)

checkA(d, errors) ==
    IF RatioLess(timePerProject(d), MinTimePerProject)
    THEN Append(errors, Err("A", "")) ELSE errors

checkB(d, errors) ==
    IF projectedProjects(d) > d.tableCount
    THEN Append(errors, Err("B", "")) ELSE errors

checkC_offByOne(d, errors) ==
    IF getDiffInMinutes(d.judgeArrival, d.judgeOrientation) <= MinArrivalGap
    THEN Append(errors, Err("C", "")) ELSE errors

checkC(d, errors) ==
    IF getDiffInMinutes(d.judgeArrival, d.judgeOrientation) < MinArrivalGap
    THEN Append(errors, Err("C", "")) ELSE errors

checkD(d, errors) ==
    IF getDiffInMinutes(d.judgeOrientation, d.judgingStart) < MinHourGap
    THEN Append(errors, Err("D", "")) ELSE errors

checkE(d, errors) ==
    LET hardDeadlineToStart == getDiffInMinutes(d.hardDeadline, d.judgingStart)
    IN  IF Abs(hardDeadlineToStart - MinHourGap) > HardDeadlineMargin
        THEN IF hardDeadlineToStart < MinHourGap
             THEN Append(errors, Err("E", "")) ELSE errors
        ELSE errors

checkF(d, errors) ==
    IF totalJudgingTime(d) < MinJudgingTime
    THEN Append(errors, Err("F", "")) ELSE errors

checkG(d, errors) ==
    IF d.tableCount < requiredTables(d)
    THEN Append(errors, Err("G", "")) ELSE errors

checkH(d, errors) ==
    IF getDiffInMinutes(d.softDeadline, d.hardDeadline) < MinHourGap
    THEN Append(errors, Err("H", "")) ELSE errors

checkI(d, errors) ==
    IF getDiffInMinutes(d.judgingEnd, d.closingCeremony) < MinHourGap
    THEN Append(errors, Err("I", "")) ELSE errors

checkJ(d, errors) ==
    IF getDiffInMinutes(d.closingCeremony, d.venueHardCutoff) < MinHourGap
    THEN Append(errors, Err("J", "")) ELSE errors

checkK(d, errors) ==
    IF d.judgesPerProject < MinRounds
    THEN Append(errors, Err("K", "")) ELSE errors

\* requiredRoles.forEach: one error per enumerated role nobody holds
checkL_roles(d, errors) ==
    LET filledRoles == {d.organizers[i].role : i \in DOMAIN d.organizers}
        unfilled == SelectSeq(OrganizerRoleType, LAMBDA role : role \notin filledRoles)
    IN  errors \o [i \in 1..Len(unfilled) |-> Err("L", unfilled[i])]

\* the Map phone -> roles, in insertion order: the index of each phone's
\* first organizer
rolesMapKeys(d) ==
    SelectSeq(Indices(d.organizers),
              LAMBDA i : \A j \in 1..(i - 1) :
                            d.organizers[j].phone # d.organizers[i].phone)

\* roles.get(phone): the roles of the organizers with this phone
orgRoles(d, phone) ==
    LET held == SelectSeq(Indices(d.organizers),
                          LAMBDA i : d.organizers[i].phone = phone)
    IN  [k \in 1..Len(held) |-> d.organizers[held[k]].role]

checkL_phones_distinctRoles(d, errors) ==
    LET multi == SelectSeq(rolesMapKeys(d),
                    LAMBDA i : LET held == orgRoles(d, d.organizers[i].phone)
                               IN  Cardinality({held[k] : k \in DOMAIN held}) > 1)
    IN  errors \o [k \in 1..Len(multi) |-> Err("L", d.organizers[multi[k]].phone)]

\* roles.forEach: one error per phone that collected more than one role entry
checkL_phones(d, errors) ==
    LET multi == SelectSeq(rolesMapKeys(d),
                    LAMBDA i : Len(orgRoles(d, d.organizers[i].phone)) > 1)
    IN  errors \o [k \in 1..Len(multi) |-> Err("L", d.organizers[multi[k]].phone)]

stressErrors(d) ==
    LET eA == checkA(d, <<>>)
        eB == checkB(d, eA)
        eC == checkC(d, eB)
        eD == checkD(d, eC)
        eE == checkE(d, eD)
        eF == checkF(d, eE)
        eG == checkG(d, eF)
        eH == checkH(d, eG)
        eI == checkI(d, eH)
        eJ == checkJ(d, eI)
        eK == checkK(d, eJ)
        eL == checkL_roles(d, eK)
    IN  checkL_phones(d, eL)

runStressTest(d) ==
    LET errors == stressErrors(d)
    IN  [passed |-> Len(errors) = 0,
         errors |-> errors,
         metrics |-> [effectiveJudges |-> effectiveJudges(d),
                      projectedProjects |-> projectedProjects(d),
                      timePerProject |-> timePerProject(d),
                      totalJudgingTime |-> totalJudgingTime(d),
                      rounds |-> d.judgesPerProject]]

----------------------------------------------------------------------------
(* App.tsx: the stored events.  Which view is on screen is not a variable: *)
(* a handler of a view stands for opening that view and using it.          *)

\* `evt-${Date.now()}`
EventIdAt(t) == "evt-" \o ToString(t)

\* an event as handleMlhCreateEvent stored it at an earlier time
StoredEvent == [INITIAL_DATA EXCEPT !.id = EventIdAt(1)]

\* const activeEventData = events.find(e => e.id === activeEventId)
activeEventData ==
    IF activeEventId = None THEN None
    ELSE LET found == SelectSeq(events, LAMBDA e : e.id = activeEventId[1])
         IN  IF found = <<>> THEN None ELSE Some(found[1])

\* setEvents(prev => prev.map(e => e.id === newData.id ? newData : e))
updateActiveEvent(newData) ==
    [i \in DOMAIN events |-> IF events[i].id = newData.id THEN newData ELSE events[i]]

\* a view's onChange prop: the stored record changes and the views get it
onChange(newData) ==
    /\ events' = updateActiveEvent(newData)
    /\ data' = newData

----------------------------------------------------------------------------
(* App.tsx: handleRunTest *)

\* the planning form with its "Run Stress Test" button is what an organizer
\* sees unless an approved report stands in its place
handleRunTest ==
    /\ userRole = Some("ADMIN")
    /\ ~(result # None /\ result[1].passed)
    /\ activeEventData # None
    /\ result' = Some(runStressTest(activeEventData[1]))
    /\ UNCHANGED <<data, events, statuses, assignRounds, appVars, passVars, alertMsg, viewVars>>

----------------------------------------------------------------------------
(* Event records the planning form can hold, for the stress test *)

At(t) == Some(t)

Organizer(i, phone, role) ==
    [name |-> "Organizer " \o ToString(i), phone |-> phone, email |-> "",
     role |-> role]

OwnPhone(i) == "555-000" \o ToString(i)

\* every role held by its own organizer, every phone different
FilledOrganizers ==
    [i \in 1..Len(OrganizerRoleType) |->
        Organizer(i, OwnPhone(i), OrganizerRoleType[i])]

\* 10:00 on the event's day, in minutes
JudgingStartMinute == 100 * 60

\* a timeline with the given gaps around a set judging start
TimelineOf(gC, gD, gE, gF, gH, gI, gJ) ==
    [judgingStart |-> At(JudgingStartMinute),
     judgeOrientation |-> At(JudgingStartMinute - gD),
     judgeArrival |-> At(JudgingStartMinute - gD - gC),
     hardDeadline |-> At(JudgingStartMinute - gE),
     softDeadline |-> At(JudgingStartMinute - gE - gH),
     judgingEnd |-> At(JudgingStartMinute + gF),
     closingCeremony |-> At(JudgingStartMinute + gF + gI),
     venueHardCutoff |-> At(JudgingStartMinute + gF + gI + gJ)]

GoodTimeline == TimelineOf(30, 60, 60, 90, 60, 60, 60)

EventRecord(checkIns, tables, rounds, nJudges, tl, orgs) ==
    [StoredEvent EXCEPT
        !.estimatedCheckIns = checkIns,
        !.tableCount = tables,
        !.judgesPerProject = rounds,
        !.judges = SubSeq(DEFAULT_JUDGES, 1, nJudges),
        !.organizers = orgs,
        !.softDeadline = tl.softDeadline,
        !.hardDeadline = tl.hardDeadline,
        !.judgeArrival = tl.judgeArrival,
        !.judgeOrientation = tl.judgeOrientation,
        !.judgingStart = tl.judgingStart,
        !.judgingEnd = tl.judgingEnd,
        !.closingCeremony = tl.closingCeremony,
        !.venueHardCutoff = tl.venueHardCutoff]

\* organizer lists of the joint family: all filled; the last role vacant; the
\* last organizer sharing the first one's phone; a second holder of a role
JointOrganizers ==
    { FilledOrganizers,
      SubSeq(FilledOrganizers, 1, Len(FilledOrganizers) - 1),
      [FilledOrganizers EXCEPT ![5].phone = OwnPhone(1)],
      Append(FilledOrganizers, Organizer(6, OwnPhone(6), RoleDevpost)) }

\* every rule at, and just below, its threshold, in all combinations
JointConfig(d) ==
    \E c \in {0, 5, 6}, t \in 0..MaxTables, n \in {1, 2}, j \in {0, MaxJudges},
       gC \in {29, 30}, gD \in {59, 60}, gE \in {54, 57, 60}, gF \in {89, 90},
       gH \in {59, 60}, gI \in {59, 60}, gJ \in {59, 60},
       o \in JointOrganizers :
        d = EventRecord(c, t, n, j, TimelineOf(gC, gD, gE, gF, gH, gI, gJ), o)

\* timelines with unset endpoints and endpoints in reverse order
TimelineConfig(d) ==
    \E a \in {None, At(5910), At(5990)},
       o \in {None, At(5940), At(6100)},
       s \in {None, At(JudgingStartMinute)},
       h \in {None, At(3000), At(5940), At(5941), At(5945), At(5946), At(6030)},
       sd \in {None, At(2900), At(5880), At(5990)},
       e \in {None, At(6090), At(5800)},
       cc \in {None, At(6150), At(6000)},
       v \in {None, At(6210), At(6100)} :
        d = EventRecord(5, 2, 2, MaxJudges,
              [judgeArrival |-> a, judgeOrientation |-> o, judgingStart |-> s,
               hardDeadline |-> h, softDeadline |-> sd, judgingEnd |-> e,
               closingCeremony |-> cc, venueHardCutoff |-> v], FilledOrganizers)

\* organizer lists: each phone its own, the first organizer's or empty; the
\* last organizer in any role; optionally a sixth organizer
OrganizerLists ==
    LET five == { [i \in 1..5 |->
                     Organizer(i, ph[i], IF i = 5 THEN r ELSE OrganizerRoleType[i])] :
                  ph \in [1..5 -> {"", OwnPhone(1), "own"}],
                  r \in {RoleDevpost, RoleOrientation, RoleSlides} }
        own == { [i \in 1..5 |->
                     [o[i] EXCEPT !.phone = IF @ = "own" THEN OwnPhone(i) ELSE @]] :
                 o \in five }
        sixth == { Organizer(6, ph, r) :
                   ph \in {"", OwnPhone(1), OwnPhone(6)},
                   r \in {RoleDevpost, RoleSlides} }
    IN  own \cup { Append(o, s) : o \in own, s \in sixth }
            \cup { SubSeq(o, 1, 4) : o \in own }
            \cup { DEFAULT_ORGANIZERS, <<>> }

OrganizerConfig(d) ==
    \E o \in OrganizerLists : d = EventRecord(5, 2, 2, MaxJudges, GoodTimeline, o)

\* check-ins, judges, judging time and rounds for the derived quantities
MetricConfig(d) ==
    \E c \in {-3, 0, 1, 5, 6, 99, 100, 101},
       t \in {0, MaxTables, 26, 27},
       n \in {-1, 0, 1, 2, 3},
       j \in (0..MaxJudges) \cup {DefaultJudgeCount},
       e \in {None, At(JudgingStartMinute + 120), At(JudgingStartMinute + 90),
              At(JudgingStartMinute + 10), At(JudgingStartMinute - 30)} :
        d = EventRecord(c, t, n, j, [GoodTimeline EXCEPT !.judgingEnd = e],
                        FilledOrganizers)

StressConfig(d) ==
    JointConfig(d) \/ TimelineConfig(d) \/ OrganizerConfig(d) \/ MetricConfig(d)

\* the time of the first action; the stored records are older
StartTime == 1 + 1

\* no judge portal open, no file read in flight
QuietViews ==
    /\ activeJudge = None
    /\ selectedProject = None
    /\ scoreForm = <<>>
    /\ now = StartTime
    /\ reads = <<>>

\* an organizer logged in to the one stored event
AdminSession ==
    /\ events = <<data>>
    /\ activeEventId = Some(data.id)
    /\ userRole = Some("ADMIN")
    /\ loggedInUser = Some([name |-> "", id |-> None])
    /\ authStep = "CREDENTIALS"
    /\ selectedRoleForLogin = Some("ADMIN")
    /\ loginName = ""
    /\ loginPhone = ""
    /\ QuietViews

\* no assignment pass running, nothing rendered, no alert shown
IdleViews ==
    /\ pc = "idle"
    /\ activeProjects = <<>>
    /\ projIdx = 0
    /\ round = 0
    /\ assignments = <<>>
    /\ judgeLoad = <<>>
    /\ judgeLastTable = <<>>
    /\ alertMsg = None
    /\ activeCategory = None
    /\ leaderboard = None

IdlePass ==
    /\ IdleViews
    /\ AdminSession

InitStress ==
    /\ StressConfig(data)
    /\ result = None
    /\ statuses = None
    /\ assignRounds = 3
    /\ IdlePass

NextStress == handleRunTest

SpecStress == InitStress /\ [][NextStress]_vars

----------------------------------------------------------------------------
(* The feasibility rules as the specification states them (spec.md 4.2),  *)
(* over the event record, independent of the code's evaluation order.     *)

Tested == result # None
Res == result[1]
Reported(code) == \E i \in DOMAIN Res.errors : Res.errors[i].code = code

RuleCodes == <<"A", "B", "C", "D", "E", "F", "G", "H", "I", "J", "K", "L">>
CodeIndex(code) == CHOOSE i \in DOMAIN RuleCodes : RuleCodes[i] = code

\* minutesBetween(a, b)
SpecMinutesBetween(a, b) == IF a = None \/ b = None THEN 0 ELSE b[1] - a[1]

\* ceil(0.8 * rawJudgeCount): the least m with m >= 0.8 * n
SpecEffectiveJudges ==
    LET n == Len(data.judges)
    IN  CHOOSE m \in 0..n : 5 * m >= 4 * n /\ 5 * (m - 1) < 4 * n

\* ceil(estimatedCheckIns / 5): the least p with 5 p >= estimatedCheckIns
SpecProjectedProjects ==
    LET e == data.estimatedCheckIns
    IN  CHOOSE p \in (-Abs(e))..Abs(e) : 5 * p >= e /\ 5 * (p - 1) < e

SpecTotalJudgingTime == SpecMinutesBetween(data.judgingStart, data.judgingEnd)

\* timePerProject >= 5, with timePerProject = 0 unless both divisors are positive
SpecTimePerProjectOK ==
    /\ SpecProjectedProjects > 0
    /\ data.judgesPerProject > 0
    /\ SpecEffectiveJudges * SpecTotalJudgingTime
          >= 5 * SpecProjectedProjects * data.judgesPerProject

\* the minimum-gap rules: code, first endpoint, second endpoint, minimum
GapRules ==
    { <<"C", "judgeArrival", "judgeOrientation", 30>>,
      <<"D", "judgeOrientation", "judgingStart", 60>>,
      <<"E", "hardDeadline", "judgingStart", 60>>,
      <<"F", "judgingStart", "judgingEnd", 90>>,
      <<"H", "softDeadline", "hardDeadline", 60>>,
      <<"I", "judgingEnd", "closingCeremony", 60>>,
      <<"J", "closingCeremony", "venueHardCutoff", 60>> }

GapOf(code) == CHOOSE g \in GapRules : g[1] = code
GapMinutes(code) ==
    SpecMinutesBetween(data[GapOf(code)[2]], data[GapOf(code)[3]])

Holders(role) == {i \in DOMAIN data.organizers : data.organizers[i].role = role}
EnumeratedRoles == {OrganizerRoleType[i] : i \in DOMAIN OrganizerRoleType}

\* every enumerated role filled by exactly one organizer
EachRoleHeldOnce == \A role \in EnumeratedRoles : Cardinality(Holders(role)) = 1

\* some phone number appears under more than one role
PhoneUnderTwoRoles ==
    \E i, j \in DOMAIN data.organizers :
        /\ data.organizers[i].phone = data.organizers[j].phone
        /\ data.organizers[i].role # data.organizers[j].role

\* some phone number is shared by two organizer entries
PhoneShared ==
    \E i, j \in DOMAIN data.organizers :
        i # j /\ data.organizers[i].phone = data.organizers[j].phone

SomeRoleVacant == \E role \in EnumeratedRoles : Holders(role) = {}

RuleHolds(code) ==
    CASE code = "A" -> SpecTimePerProjectOK
      [] code = "B" -> SpecProjectedProjects <= data.tableCount
      [] code = "G" -> 10 * data.tableCount >= 13 * SpecProjectedProjects
      [] code = "K" -> data.judgesPerProject >= 2
      [] code = "L" -> EachRoleHeldOnce /\ ~PhoneUnderTwoRoles
      [] OTHER -> GapMinutes(code) >= GapOf(code)[4]

Codes == {RuleCodes[i] : i \in DOMAIN RuleCodes}

----------------------------------------------------------------------------
(* Claims about runStressTest, checked under SpecStress *)

\* C1 (as stated): whenever every timeline gap meets its minimum (C, D, E, F,
\* H, I, J), tableCount >= ceil(1.3 * projectedProjects), judgesPerProject >= 2
\* and the organizer roles are uniquely filled with distinct phones, the
\* stress test passes with an empty error list, for any number of judges and
\* any estimatedCheckIns.
C1_PassesWithoutRuleA ==
    (Tested /\ \A code \in Codes \ {"A", "B"} : RuleHolds(code))
        => (Res.passed /\ Res.errors = <<>>)

\* C1 (amended): the same, provided rule A holds too (timePerProject >= 5,
\* which needs projectedProjects > 0 and enough judge-minutes).
C1_PassesWhenAllRulesHold ==
    (Tested /\ \A code \in Codes \ {"B"} : RuleHolds(code))
        => (Res.passed /\ Res.errors = <<>>)

C1_Witness ==
    /\ Tested
    /\ \A code \in Codes : RuleHolds(code)
    /\ Res.passed

\* C2: for each rule X in A..L, a configuration that violates X as the
\* specification states it and satisfies the other eleven rules yields a
\* non-empty error list whose entries all carry code X.
C2_ExactlyTheViolatedRule ==
    Tested =>
        \A code \in Codes :
            (~RuleHolds(code) /\ \A other \in Codes \ {code} : RuleHolds(other))
                => /\ Res.errors # <<>>
                   /\ \A i \in DOMAIN Res.errors : Res.errors[i].code = code

\* C3: rule E is reported exactly when minutesBetween(hardDeadline,
\* judgingStart) is strictly below 60 (55..59 included), and never at 60 or
\* more.
C3_RuleEBelowSixty ==
    Tested => (Reported("E") <=> GapMinutes("E") < 60)

\* C4 (as stated): rule L is reported exactly when some enumerated role is not
\* filled by exactly one organizer or some phone appears under more than one
\* role.
C4_RuleLExactlyOneHolder ==
    Tested => (Reported("L") <=> (~EachRoleHeldOnce \/ PhoneUnderTwoRoles))

\* C4 (amended): rule L is reported exactly when some enumerated role is held
\* by no organizer or some phone number is shared by two organizer entries; it
\* is not reported when each role has exactly one organizer and all phones are
\* distinct.
C4_RuleLVacantOrSharedPhone ==
    Tested =>
        /\ Reported("L") <=> (SomeRoleVacant \/ PhoneShared)
        /\ (EachRoleHeldOnce /\ ~PhoneShared) => ~Reported("L")

\* a role with two holders on distinct phones, every role filled: no L
C4_Witness ==
    /\ Tested
    /\ ~EachRoleHeldOnce
    /\ ~SomeRoleVacant
    /\ ~PhoneShared
    /\ ~Reported("L")

\* C5: all twelve rules are evaluated on every call: the error list holds, in
\* A..L order, an entry for every violated rule whatever other rules are
\* violated; passed is true iff the list is empty; the result is a function
\* of the configuration.
C5_EveryViolationListed ==
    Tested =>
        /\ \A code \in Codes : ~RuleHolds(code) => Reported(code)
        /\ \A i, j \in DOMAIN Res.errors :
              i < j => CodeIndex(Res.errors[i].code) <= CodeIndex(Res.errors[j].code)
        /\ Res.passed <=> (Res.errors = <<>>)
        /\ Res = runStressTest(data)

\* C6: effectiveJudges = ceil(0.8 * judges), projectedProjects =
\* ceil(estimatedCheckIns / 5), timePerProject = effectiveJudges *
\* totalJudgingTime / (projectedProjects * judgesPerProject) when both
\* divisors are positive and 0 otherwise; rule A is reported iff
\* timePerProject < 5, hence always when projectedProjects = 0.  For 100
\* check-ins, 15 judges, 120 minutes and 3 rounds the metrics are 20, 12 and
\* 24 and rule A is not reported.
C6_DerivedQuantities ==
    Tested =>
        LET m == Res.metrics
            q == m.timePerProject
            P == SpecProjectedProjects
            n == data.judgesPerProject
        IN  /\ m.effectiveJudges = SpecEffectiveJudges
            /\ m.projectedProjects = P
            /\ q.den > 0
            /\ IF P > 0 /\ n > 0
               THEN q.num * (P * n) = q.den * (SpecEffectiveJudges * SpecTotalJudgingTime)
               ELSE q.num = 0
            /\ Reported("A") <=> (q.num < 5 * q.den)
            /\ Reported("A") <=> ~SpecTimePerProjectOK
            /\ P = 0 => Reported("A")
            /\ ( /\ data.estimatedCheckIns = 100
                 /\ Len(data.judges) = 15
                 /\ SpecTotalJudgingTime = 120
                 /\ n = 3 )
               => /\ m.projectedProjects = 20
                  /\ m.effectiveJudges = 12
                  /\ q = [num |-> 24, den |-> 1]
                  /\ ~Reported("A")

C6_Witness ==
    /\ Tested
    /\ data.estimatedCheckIns = 100
    /\ Len(data.judges) = 15
    /\ SpecTotalJudgingTime = 120
    /\ data.judgesPerProject = 3
    /\ Res.metrics.timePerProject = [num |-> 24, den |-> 1]

\* C7: each threshold rule is reported iff its inequality is violated: B iff
\* projectedProjects > tableCount; G iff tableCount < ceil(1.3 *
\* projectedProjects); K iff judgesPerProject < 2; C iff its gap < 30; D, H, I,
\* J iff their gap < 60; F iff totalJudgingTime < 90.  A reported B always
\* comes with a reported G.
C7_ThresholdRules ==
    Tested =>
        /\ Reported("B") <=> (SpecProjectedProjects > data.tableCount)
        /\ Reported("G") <=> (10 * data.tableCount < 13 * SpecProjectedProjects)
        /\ Reported("K") <=> (data.judgesPerProject < 2)
        /\ Reported("C") <=> (GapMinutes("C") < 30)
        /\ \A code \in {"D", "H", "I", "J"} :
              Reported(code) <=> (GapMinutes(code) < 60)
        /\ Reported("F") <=> (SpecTotalJudgingTime < 90)
        /\ Reported("B") => Reported("G")

C7_Witness ==
    /\ Tested
    /\ Reported("B") /\ Reported("G")
    /\ Reported("C") /\ ~Reported("D")
    /\ Reported("F") /\ ~Reported("K")

\* C8: getDiffInMinutes is 0 when an endpoint is unset and b - a otherwise,
\* negative when b precedes a; so every minimum-gap rule (C, D, E, F, H, I, J)
\* with an unset endpoint or with endpoints in reverse order is reported.
C8_UnsetOrReversedGapReported ==
    Tested =>
        /\ Res.metrics.totalJudgingTime = SpecTotalJudgingTime
        /\ \A g \in GapRules :
              LET a == data[g[2]]
                  b == data[g[3]]
              IN  (a = None \/ b = None \/ b[1] < a[1]) => Reported(g[1])

\* a negative judging time, an unset venue cutoff
C8_Witness ==
    /\ Tested
    /\ Res.metrics.totalJudgingTime < 0
    /\ data.venueHardCutoff = None
    /\ Reported("F") /\ Reported("J")

----------------------------------------------------------------------------
(* types.ts: projects and scores *)

ProjectIds == <<"p1", "p2", "p3", "p4", "p5", "p6", "p7">>

\* a noShow flag is optional: absent, false or true
Truthy(flag) == flag = Some(TRUE)

\* a project as addProject creates it: tagged 'General' only
Project(i, table, noShow) ==
    [id |-> ProjectIds[i], name |-> "Project " \o ToString(i), table |-> table,
     categories |-> <<"General">>, noShow |-> noShow]

\* a score record; criteria maps criterion ids to the values given
Score(k, judgeId, projectId) ==
    [id |-> "score-" \o ToString(k), judgeId |-> judgeId, projectId |-> projectId,
     criteria |-> <<>>]

----------------------------------------------------------------------------
(* utils.ts: getProjectStatus *)

getProjectStatus_atMost(project, scores, requiredRounds) ==
    IF Truthy(project.noShow) THEN "purple"
    ELSE LET timesJudged ==
                 Len(SelectSeq(scores, LAMBDA sc : sc.projectId = project.id))
         IN  IF timesJudged = 0 THEN "red"
             ELSE IF timesJudged <= requiredRounds THEN "yellow"
             ELSE "green"

getProjectStatus(project, scores, requiredRounds) ==
    IF Truthy(project.noShow) THEN "purple"
    ELSE LET timesJudged ==
                 Len(SelectSeq(scores, LAMBDA sc : sc.projectId = project.id))
         IN  IF timesJudged = 0 THEN "red"
             ELSE IF timesJudged < requiredRounds THEN "yellow"
             ELSE "green"

----------------------------------------------------------------------------
(* utils.ts: calculateLeaderboard *)

\* Array.prototype.includes
includes(list, x) == \E i \in DOMAIN list : list[i] = x

\* the sum of the values of a finite function
RECURSIVE Sum(_)
Sum(f) ==
    IF DOMAIN f = {} THEN 0
    ELSE LET x == CHOOSE y \in DOMAIN f : TRUE
         IN  f[x] + Sum([y \in DOMAIN f \ {x} |-> f[y]])

includedCriteriaIds_all(criteria, organizerCategories, filterCategory) ==
    {criteria[i].id : i \in DOMAIN criteria}

\* 1. the ids of the criteria that enter the calculation
includedCriteriaIds(criteria, organizerCategories, filterCategory) ==
    {criteria[i].id : i \in
        {k \in DOMAIN criteria :
            LET isCategoryCriterion == includes(organizerCategories, criteria[k].name)
            IN  IF filterCategory = None
                THEN ~isCategoryCriterion
                ELSE ~isCategoryCriterion \/ criteria[k].name = filterCategory[1]}}

relevantProjects_untagged(projects, filterCategory) ==
    SelectSeq(projects, LAMBDA p : ~Truthy(p.noShow))

\* 2. the projects of the view
relevantProjects(projects, filterCategory) ==
    SelectSeq(projects,
              LAMBDA p : /\ ~Truthy(p.noShow)
                         /\ filterCategory # None =>
                               includes(p.categories, filterCategory[1]))

\* criteria.find(c => c.id === cId)?.weight ?? 1
weightOf(criteria, cId) ==
    IF \E i \in DOMAIN criteria : criteria[i].id = cId
    THEN LET first == CHOOSE i \in DOMAIN criteria :
                         /\ criteria[i].id = cId
                         /\ \A k \in DOMAIN criteria : criteria[k].id = cId => i <= k
         IN  IF criteria[first].weight = None THEN 1 ELSE criteria[first].weight[1]
    ELSE 1

rawTotal_unweighted(s, criteria, included) ==
    Sum([cId \in DOMAIN s.criteria \cap included |-> s.criteria[cId]])

\* 3. the raw total of one score record
rawTotal(s, criteria, included) ==
    Sum([cId \in DOMAIN s.criteria \cap included |->
            s.criteria[cId] * weightOf(criteria, cId)])

\* the score records of relevant projects, in order
relevantScores(relevant, scores) ==
    SelectSeq(scores, LAMBDA s : \E i \in DOMAIN relevant : relevant[i].id = s.projectId)

\* judgeScores: judge id -> that judge's {projectId, rawScore} entries
judgeScores(relevant, scores, criteria, included) ==
    LET kept == relevantScores(relevant, scores)
        entry(s) == [projectId |-> s.projectId,
                     rawScore |-> rawTotal(s, criteria, included)]
    IN  [j \in {kept[i].judgeId : i \in DOMAIN kept} |->
            LET own == SelectSeq(kept, LAMBDA s : s.judgeId = j)
            IN  [i \in DOMAIN own |-> entry(own[i])]]

\* jScores.sort((a, b) => b.rawScore - a.rawScore), stable
RECURSIVE sortScores(_)
sortScores(js) ==
    IF js = <<>> THEN <<>>
    ELSE LET rest == sortScores(SubSeq(js, 1, Len(js) - 1))
             x == js[Len(js)]
             k == Cardinality({i \in DOMAIN rest : x.rawScore - rest[i].rawScore <= 0})
         IN  SubSeq(rest, 1, k) \o <<x>> \o SubSeq(rest, k + 1, Len(rest))
rankAt_position(sorted, i) == i

\* rank = (index of the first item with this score) + 1
rankAt(sorted, i) ==
    CHOOSE r \in DOMAIN sorted :
        /\ sorted[r].rawScore = sorted[i].rawScore
        /\ \A k \in DOMAIN sorted : sorted[k].rawScore = sorted[i].rawScore => r <= k

pointsForRank(rank) ==
    CASE rank = 1 -> 5
      [] rank = 2 -> 4
      [] rank = 3 -> 3
      [] rank = 4 -> 2
      [] rank = 5 -> 1
      [] OTHER -> 0

entriesOf(sorted, projectId) == {i \in DOMAIN sorted : sorted[i].projectId = projectId}

\* 4. the accumulators after the loop over Object.values(judgeScores)
projectPoints(js, projectId) ==
    Sum([j \in DOMAIN js |->
            LET sorted == sortScores(js[j])
            IN  Sum([i \in entriesOf(sorted, projectId) |->
                        pointsForRank(rankAt(sorted, i))])])

projectRawTotals(js, projectId) ==
    Sum([j \in DOMAIN js |->
            Sum([i \in entriesOf(js[j], projectId) |-> js[j][i].rawScore])])

projectJudgeCounts(js, projectId) ==
    Sum([j \in DOMAIN js |-> Cardinality(entriesOf(js[j], projectId))])

statsOf_total(p, js) ==
    LET timesJudged == projectJudgeCounts(js, p.id)
    IN  [projectId |-> p.id, projectName |-> p.name, table |-> p.table,
         timesJudged |-> timesJudged,
         rankPoints |-> projectPoints(js, p.id),
         rawAvg |-> Ratio(projectRawTotals(js, p.id), 1)]

\* 5. one row of the result; rawAvg is kept as an exact quotient
statsOf(p, js) ==
    LET timesJudged == projectJudgeCounts(js, p.id)
        total == projectRawTotals(js, p.id)
    IN  [projectId |-> p.id, projectName |-> p.name, table |-> p.table,
         timesJudged |-> timesJudged,
         rankPoints |-> projectPoints(js, p.id),
         rawAvg |-> IF timesJudged > 0 THEN Ratio(total, timesJudged)
                    ELSE Ratio(0, 1)]

compareStats_pointsOnly(a, b) == b.rankPoints - a.rankPoints

\* the comparator of the final sort: rank points, then raw average
compareStats(a, b) ==
    IF b.rankPoints # a.rankPoints THEN b.rankPoints - a.rankPoints
    ELSE b.rawAvg.num * a.rawAvg.den - a.rawAvg.num * b.rawAvg.den

RECURSIVE sortStats(_)
sortStats(rows) ==
    IF rows = <<>> THEN <<>>
    ELSE LET rest == sortStats(SubSeq(rows, 1, Len(rows) - 1))
             x == rows[Len(rows)]
             k == Cardinality({i \in DOMAIN rest : compareStats(rest[i], x) <= 0})
         IN  SubSeq(rest, 1, k) \o <<x>> \o SubSeq(rest, k + 1, Len(rest))

calculateLeaderboard_incremental(projects, scores, criteria, organizerCategories, filterCategory) ==
    LET included == includedCriteriaIds(criteria, organizerCategories, filterCategory)
        relevant == relevantProjects(projects, filterCategory)
        js == judgeScores(relevant, scores, criteria, included)
        carried(p) == IF leaderboard = None THEN 0
                      ELSE Sum([i \in {k \in DOMAIN leaderboard[1] :
                                        leaderboard[1][k].projectId = p.id} |->
                                   leaderboard[1][i].rankPoints])
    IN  sortStats([i \in DOMAIN relevant |->
                     [statsOf(relevant[i], js) EXCEPT
                         !.rankPoints = @ + carried(relevant[i])]])

\* the whole function: nothing is read but the five arguments, and every
\* array it sorts or filters is one it built itself
calculateLeaderboard(projects, scores, criteria, organizerCategories, filterCategory) ==
    LET included == includedCriteriaIds(criteria, organizerCategories, filterCategory)
        relevant == relevantProjects(projects, filterCategory)
        js == judgeScores(relevant, scores, criteria, included)
    IN  sortStats([i \in DOMAIN relevant |-> statsOf(relevant[i], js)])

----------------------------------------------------------------------------
(* LiveDashboard.tsx: what a render computes *)

\* the projects shown in the statistics and the grid
displayProjects(category) ==
    IF category = None THEN data.projects
    ELSE SelectSeq(data.projects, LAMBDA p : includes(p.categories, category[1]))

\* the leaderboard and the project statuses of a render with that category
render(category) ==
    /\ leaderboard' = Some(calculateLeaderboard(data.projects, data.scores,
                                                data.criteria,
                                                data.organizerCategories, category))
    /\ statuses' = Some([i \in DOMAIN displayProjects(category) |->
                          getProjectStatus(displayProjects(category)[i],
                                           data.scores, data.judgesPerProject)])

\* a render of the dashboard with the category it holds
renderDashboard ==
    /\ render(activeCategory)
    /\ UNCHANGED <<data, events, result, assignRounds, appVars, passVars, alertMsg, activeCategory>>

\* the category buttons of a rendered dashboard: Overall, or one of
\* data.organizerCategories; the state change renders again
setActiveCategory ==
    /\ leaderboard # None
    /\ \E cat \in {None} \cup {Some(data.organizerCategories[i]) :
                                 i \in DOMAIN data.organizerCategories} :
          /\ activeCategory' = cat
          /\ render(cat)
    /\ UNCHANGED <<data, events, result, assignRounds, appVars, passVars, alertMsg>>

\* event records for the dashboard: projects with any flag, scores for known
\* and unknown projects, any judgesPerProject the planning form can hold
StatusConfig(d) ==
    \E np \in 1..MaxProjects, ns \in 0..MaxScores, rounds \in (-1)..(MaxRounds + 1) :
        \E flags \in [1..np -> {None, Some(FALSE), Some(TRUE)}],
           target \in [1..ns -> {ProjectIds[i] : i \in 1..np} \cup {"removed"}] :
            d = [StoredEvent EXCEPT
                    !.judgesPerProject = rounds,
                    !.projects = [i \in 1..np |-> Project(i, ToString(i), flags[i])],
                    !.scores = [k \in 1..ns |->
                                   Score(k, DEFAULT_JUDGES[k].id, target[k])]]

InitStatus ==
    /\ StatusConfig(data)
    /\ result = None
    /\ statuses = None
    /\ assignRounds = 3
    /\ IdlePass

NextStatus == renderDashboard

SpecStatus == InitStatus /\ [][NextStatus]_vars

----------------------------------------------------------------------------
(* Claims about getProjectStatus, checked under SpecStatus *)

Rendered == statuses # None
StatusOf(i) == statuses[1][i]
ScoreCount(i) ==
    Cardinality({k \in DOMAIN data.scores :
                    data.scores[k].projectId = data.projects[i].id})
NoShow(i) == data.projects[i].noShow = Some(TRUE)

\* C9 (as stated): getProjectStatus is total, also for requiredRounds <= 0,
\* and satisfies at once: no-show => purple; otherwise 0 scores => red;
\* 1 <= count < requiredRounds => yellow; count >= requiredRounds => green.
C9_FourImplications ==
    Rendered =>
        \A i \in DOMAIN data.projects :
            LET count == ScoreCount(i)
                required == data.judgesPerProject
            IN  /\ StatusOf(i) \in {"purple", "red", "yellow", "green"}
                /\ NoShow(i) => StatusOf(i) = "purple"
                /\ (~NoShow(i) /\ count = 0) => StatusOf(i) = "red"
                /\ (~NoShow(i) /\ 1 <= count /\ count < required)
                      => StatusOf(i) = "yellow"
                /\ (~NoShow(i) /\ count >= required) => StatusOf(i) = "green"

\* C9 (amended): the same, with green only for a project that has been judged:
\* count >= requiredRounds and count >= 1 => green (a project without scores
\* is red also when requiredRounds <= 0).
C9_StatusByScoreCount ==
    Rendered =>
        \A i \in DOMAIN data.projects :
            LET count == ScoreCount(i)
                required == data.judgesPerProject
            IN  /\ StatusOf(i) \in {"purple", "red", "yellow", "green"}
                /\ NoShow(i) => StatusOf(i) = "purple"
                /\ (~NoShow(i) /\ count = 0) => StatusOf(i) = "red"
                /\ (~NoShow(i) /\ 1 <= count /\ count < required)
                      => StatusOf(i) = "yellow"
                /\ (~NoShow(i) /\ count >= required /\ count >= 1)
                      => StatusOf(i) = "green"

\* an unjudged project under requiredRounds <= 0 next to a judged one
C9_Witness ==
    /\ Rendered
    /\ data.judgesPerProject <= 0
    /\ \E i, j \in DOMAIN data.projects :
          /\ ~NoShow(i) /\ ScoreCount(i) = 0 /\ StatusOf(i) = "red"
          /\ ~NoShow(j) /\ ScoreCount(j) >= 1 /\ StatusOf(j) = "green"

----------------------------------------------------------------------------
(* ProjectManager.tsx: generateAssignments *)

FarAway == -999
LoadWeight == 50
FlowDistance == 10
FlowBonus == 100
FreshBonus == 50
JitterRange == 20

\* table labels of the model: two numeric ones, more than FlowDistance apart,
\* and one parseInt cannot read
TableLabels == {"1", "30", "A1"}

\* parseInt(label): <<n>>, or <<>> for NaN
parseInt(label) ==
    CASE label = "1" -> Some(1)
      [] label = "30" -> Some(30)
      [] OTHER -> None

\* a.localeCompare(b) on the labels: their order as strings
LocaleOrder == <<"1", "30", "A1">>
LocaleRank(label) == CHOOSE i \in DOMAIN LocaleOrder : LocaleOrder[i] = label
localeCompare(a, b) == LocaleRank(a) - LocaleRank(b)

\* the comparator of activeProjects.sort
compareProjects(a, b) ==
    LET tA == parseInt(a.table)
        tB == parseInt(b.table)
    IN  IF tA # None /\ tB # None THEN tA[1] - tB[1]
        ELSE localeCompare(a.table, b.table)

\* Array.prototype.sort with that comparator (stable)
RECURSIVE sortProjects(_)
sortProjects(s) ==
    IF s = <<>> THEN <<>>
    ELSE LET rest == sortProjects(SubSeq(s, 1, Len(s) - 1))
             x == s[Len(s)]
             k == Cardinality({i \in DOMAIN rest : compareProjects(rest[i], x) <= 0})
         IN  SubSeq(rest, 1, k) \o <<x>> \o SubSeq(rest, k + 1, Len(rest))

isActive_all(p) == TRUE

isActive(p) == ~Truthy(p.noShow)

\* parseInt(project.table) || 0
tableNumOf(project) ==
    LET n == parseInt(project.table) IN IF n = None THEN 0 ELSE n[1]

JudgeIdsOf(d) == {d.judges[i].id : i \in DOMAIN d.judges}

candidates_all(project) == data.judges

candidates_refill(project) ==
    LET fresh == SelectSeq(data.judges,
                           LAMBDA j : ~\E i \in DOMAIN assignments :
                                         /\ assignments[i].judgeId = j.id
                                         /\ assignments[i].projectId = project.id)
    IN  IF fresh = <<>> THEN data.judges ELSE fresh

\* the judges who have not been assigned this project yet
candidates(project) ==
    SelectSeq(data.judges,
              LAMBDA j : ~\E i \in DOMAIN assignments :
                            /\ assignments[i].judgeId = j.id
                            /\ assignments[i].projectId = project.id)

baseScore_lightLoad(judge, tableNum) ==
    LET load == judgeLoad[judge.id]
        dist == Abs(tableNum - judgeLastTable[judge.id])
    IN  (0 - load * FlowDistance)
        + (IF dist <= FlowDistance THEN FlowBonus
           ELSE IF load = 0 THEN FreshBonus
           ELSE 0 - dist)

\* a candidate's score before the random term
baseScore(judge, tableNum) ==
    LET load == judgeLoad[judge.id]
        dist == Abs(tableNum - judgeLastTable[judge.id])
    IN  (0 - load * LoadWeight)
        + (IF dist <= FlowDistance THEN FlowBonus
           ELSE IF load = 0 THEN FreshBonus
           ELSE 0 - dist)

\* whole parts of Math.random() * 20 the model draws from
JitterValues == {0, JitterRange \div 2, JitterRange - 1}

bestCandidates_any(cands, jitter, tableNum) == DOMAIN cands

\* The candidates that can come first after the descending sort, given the
\* whole part of each candidate's random term.  The fractional parts are
\* independent draws, so among candidates whose whole scores tie any one can
\* be first; a candidate with a smaller whole score cannot.
bestCandidates(cands, jitter, tableNum) ==
    LET whole(i) == baseScore(cands[i], tableNum) + jitter[i]
    IN  {i \in DOMAIN cands : \A k \in DOMAIN cands : whole(i) >= whole(k)}

Assignment(n, judgeId, projectId) ==
    [id |-> n, judgeId |-> judgeId, projectId |-> projectId, status |-> "pending"]

\* the alert "No judges available", and return
generateAssignments_noJudges ==
    /\ pc # "assigning"
    /\ Len(data.judges) = 0
    /\ alertMsg' = Some("No judges available. Please add judges in the Planning tab.")
    /\ UNCHANGED <<data, events, result, statuses, assignRounds, appVars, passVars, viewVars>>

generateAssignments_noProjects_emptyPlan ==
    /\ pc # "assigning"
    /\ Len(data.judges) # 0
    /\ Len(SelectSeq(data.projects, isActive)) = 0
    /\ alertMsg' = Some("No active projects to assign.")
    /\ onChange([data EXCEPT !.assignments = <<>>])
    /\ UNCHANGED <<result, statuses, assignRounds, appVars, passVars, viewVars>>

\* the alert "No active projects to assign", and return
generateAssignments_noProjects ==
    /\ pc # "assigning"
    /\ Len(data.judges) # 0
    /\ Len(SelectSeq(data.projects, isActive)) = 0
    /\ alertMsg' = Some("No active projects to assign.")
    /\ UNCHANGED <<data, events, result, statuses, assignRounds, appVars, passVars, viewVars>>

\* the set-up of a pass: sorted active projects, fresh accumulators.  A
\* behaviour follows one pass; the record it starts from may already hold the
\* plan of an earlier one (StoredPlans).
generateAssignments_begin ==
    /\ pc = "idle"
    /\ Len(data.judges) # 0
    /\ Len(SelectSeq(data.projects, isActive)) # 0
    /\ pc' = "assigning"
    /\ assignments' = <<>>
    /\ activeProjects' = sortProjects(SelectSeq(data.projects, isActive))
    /\ judgeLoad' = [id \in JudgeIdsOf(data) |-> 0]
    /\ judgeLastTable' = [id \in JudgeIdsOf(data) |-> FarAway]
    /\ projIdx' = 1
    /\ round' = 0
    /\ UNCHANGED <<data, events, result, statuses, assignRounds, appVars, alertMsg, viewVars>>

generateAssignments_round_keepTable ==
    /\ pc = "assigning"
    /\ projIdx <= Len(activeProjects)
    /\ LET project == activeProjects[projIdx]
           tableNum == tableNumOf(project)
           cands == candidates(project)
       IN  IF Len(cands) > 0
           THEN \E jitter \in [DOMAIN cands -> JitterValues] :
                    \E i \in bestCandidates(cands, jitter, tableNum) :
                        LET best == cands[i]
                        IN  /\ assignments' =
                                  Append(assignments,
                                         Assignment(Len(assignments), best.id, project.id))
                            /\ judgeLoad' = [judgeLoad EXCEPT ![best.id] = @ + 1]
                            /\ judgeLastTable' =
                                  IF judgeLoad[best.id] = 0
                                  THEN [judgeLastTable EXCEPT ![best.id] = tableNum]
                                  ELSE judgeLastTable
           ELSE UNCHANGED <<assignments, judgeLoad, judgeLastTable>>
    /\ IF round + 1 < assignRounds
       THEN round' = round + 1 /\ projIdx' = projIdx
       ELSE round' = 0 /\ projIdx' = projIdx + 1
    /\ UNCHANGED <<data, events, result, statuses, assignRounds, appVars, pc, activeProjects,
                   alertMsg, viewVars>>

\* one iteration of the loop over r for the current project
generateAssignments_round ==
    /\ pc = "assigning"
    /\ projIdx <= Len(activeProjects)
    /\ LET project == activeProjects[projIdx]
           tableNum == tableNumOf(project)
           cands == candidates(project)
       IN  IF Len(cands) > 0
           THEN \E jitter \in [DOMAIN cands -> JitterValues] :
                    \E i \in bestCandidates(cands, jitter, tableNum) :
                        LET best == cands[i]
                        IN  /\ assignments' =
                                  Append(assignments,
                                         Assignment(Len(assignments), best.id, project.id))
                            /\ judgeLoad' = [judgeLoad EXCEPT ![best.id] = @ + 1]
                            /\ judgeLastTable' =
                                  [judgeLastTable EXCEPT ![best.id] = tableNum]
           ELSE UNCHANGED <<assignments, judgeLoad, judgeLastTable>>
    /\ IF round + 1 < assignRounds
       THEN round' = round + 1 /\ projIdx' = projIdx
       ELSE round' = 0 /\ projIdx' = projIdx + 1
    /\ UNCHANGED <<data, events, result, statuses, assignRounds, appVars, pc, activeProjects,
                   alertMsg, viewVars>>

generateAssignments_end_append ==
    /\ pc = "assigning"
    /\ projIdx > Len(activeProjects)
    /\ onChange([data EXCEPT !.assignments = @ \o assignments])
    /\ pc' = "done"
    /\ alertMsg' = Some("Generated " \o ToString(Len(assignments))
                          \o " assignments. Each project assigned approx "
                          \o ToString(assignRounds) \o " times.")
    /\ UNCHANGED <<result, statuses, assignRounds, appVars, activeProjects, projIdx, round,
                   assignments, judgeLoad, judgeLastTable, viewVars>>

\* onChange({ ...data, assignments }), and the closing alert
generateAssignments_end ==
    /\ pc = "assigning"
    /\ projIdx > Len(activeProjects)
    /\ onChange([data EXCEPT !.assignments = assignments])
    /\ pc' = "done"
    /\ alertMsg' = Some("Generated " \o ToString(Len(assignments))
                          \o " assignments. Each project assigned approx "
                          \o ToString(assignRounds) \o " times.")
    /\ UNCHANGED <<result, statuses, assignRounds, appVars, activeProjects, projIdx, round,
                   assignments, judgeLoad, judgeLastTable, viewVars>>

\* the id of an assignment carries Date.now() and its index; the entries of
\* this pass are numbered from 0, one left by an earlier pass lies before them
EarlierPass == 0 - 1

\* what data.assignments holds before a pass: nothing, or an earlier plan
\* (one of whose visits has been scored)
StoredPlans == {<<>>, <<Assignment(EarlierPass, DEFAULT_JUDGES[1].id, ProjectIds[1])>>}

\* event records for the assignment pass
AssignConfig(d) ==
    \E np \in 0..MaxProjects, nj \in 0..MaxJudges, stored \in StoredPlans :
        \E tables \in [1..np -> TableLabels],
           flags \in [1..np -> {Some(FALSE), Some(TRUE)}] :
            d = [StoredEvent EXCEPT
                    !.judges = SubSeq(DEFAULT_JUDGES, 1, nj),
                    !.projects = [i \in 1..np |-> Project(i, tables[i], flags[i])],
                    !.assignments = stored,
                    !.scores = IF stored = <<>> THEN <<>>
                               ELSE <<Score(1, stored[1].judgeId, stored[1].projectId)>>]

InitAssign ==
    /\ AssignConfig(data)
    /\ result = None
    /\ statuses = None
    /\ assignRounds \in 1..MaxRounds
    /\ IdlePass

NextAssign ==
    \/ generateAssignments_noJudges
    \/ generateAssignments_noProjects
    \/ generateAssignments_begin
    \/ generateAssignments_round
    \/ generateAssignments_end

SpecAssign == InitAssign /\ [][NextAssign]_vars

----------------------------------------------------------------------------
(* Claims about generateAssignments, checked under SpecAssign *)

NoPairTwice(plan) ==
    \A i, j \in DOMAIN plan :
        (plan[i].judgeId = plan[j].judgeId /\ plan[i].projectId = plan[j].projectId)
            => i = j

AssignedTimes(plan, projectId) ==
    Cardinality({i \in DOMAIN plan : plan[i].projectId = projectId})

ActiveIndices == {i \in DOMAIN data.projects : data.projects[i].noShow # Some(TRUE)}

\* C10: in every plan generateAssignments produces, whatever the random
\* jitter, no (judgeId, projectId) pair appears more than once, and with at
\* least roundsPerProject judges every active project receives exactly
\* roundsPerProject assignments.
C10_UniquePairsAndCoverage ==
    /\ NoPairTwice(assignments)
    /\ pc = "done" =>
          /\ data.assignments = assignments
          /\ NoPairTwice(data.assignments)
          /\ Len(data.judges) >= assignRounds =>
                \A i \in ActiveIndices :
                    AssignedTimes(data.assignments, data.projects[i].id) = assignRounds

C10_Witness ==
    /\ pc = "done"
    /\ assignRounds >= 2
    /\ Len(data.judges) >= assignRounds
    /\ Cardinality(ActiveIndices) >= 2
    /\ Len(data.assignments) = assignRounds * Cardinality(ActiveIndices)

\* the degenerate inputs: an empty judge list, or no project that is active
NoOpCase ==
    \/ Len(data.judges) = 0
    \/ \A i \in DOMAIN data.projects : data.projects[i].noShow = Some(TRUE)

NoOpAlerts ==
    {Some("No judges available. Please add judges in the Planning tab."),
     Some("No active projects to assign.")}

\* C12: with an empty judge list or no active project, generateAssignments
\* is a no-op: it only reports (an alert, no error), produces no assignment,
\* and leaves the stored event record, with its earlier assignments and its
\* scores, as it was.
C12_DegenerateIsNoOp ==
    /\ [](NoOpCase => /\ pc = "idle"
                      /\ assignments = <<>>
                      /\ alertMsg \in NoOpAlerts \cup {None})
    /\ [][NoOpCase => data' = data]_vars

C12_Witness ==
    /\ NoOpCase
    /\ alertMsg \in NoOpAlerts
    /\ data.assignments # <<>>
    /\ data.scores # <<>>

RoundsExceedJudges == assignRounds > Len(data.judges)

TimesPaired(plan, judgeId, projectId) ==
    Cardinality({i \in DOMAIN plan : /\ plan[i].judgeId = judgeId
                                     /\ plan[i].projectId = projectId})

\* C13, as stated: with more rounds than judges, every judge is matched to
\* each active project at least once and the later rounds are still served,
\* so each active project receives roundsPerProject assignments.
C13_LaterRoundsServed ==
    (pc = "done" /\ RoundsExceedJudges) =>
        \A i \in ActiveIndices :
            /\ \A j \in DOMAIN data.judges :
                  TimesPaired(data.assignments, data.judges[j].id,
                              data.projects[i].id) >= 1
            /\ AssignedTimes(data.assignments, data.projects[i].id) = assignRounds

\* C13, amended: with more rounds than judges, every judge is matched to
\* each active project exactly once and the remaining rounds produce no
\* assignment: each active project receives as many assignments as there
\* are judges.
C13_EveryJudgeOnceThenSkipped ==
    (pc = "done" /\ RoundsExceedJudges) =>
        \A i \in ActiveIndices :
            /\ \A j \in DOMAIN data.judges :
                  TimesPaired(data.assignments, data.judges[j].id,
                              data.projects[i].id) = 1
            /\ AssignedTimes(data.assignments, data.projects[i].id)
                  = Len(data.judges)

C13_Witness ==
    /\ pc = "done"
    /\ RoundsExceedJudges
    /\ Cardinality(ActiveIndices) >= 2
    /\ Len(data.assignments) = Len(data.judges) * Cardinality(ActiveIndices)

\* C14: a run of generateAssignments builds the whole plan from scratch: the
\* load and last-table accumulators start fresh whatever plan is stored,
\* after the run the stored list is exactly the list this run produced, and
\* projects, judges, scores and reports are never changed by it.
C14_RerunFromScratch ==
    /\ []((pc = "assigning" /\ assignments = <<>>) =>
              \A id \in JudgeIdsOf(data) :
                  judgeLoad[id] = 0 /\ judgeLastTable[id] = FarAway)
    /\ [](pc = "done" =>
              /\ data.assignments = assignments
              /\ \A i \in DOMAIN data.assignments : data.assignments[i].id = i - 1)
    /\ [][/\ data'.projects = data.projects
          /\ data'.judges = data.judges
          /\ data'.scores = data.scores
          /\ data'.reports = data.reports]_vars

C14_Witness ==
    /\ pc = "done"
    /\ data.scores # <<>>
    /\ Len(data.assignments) >= 2
    /\ \A i \in DOMAIN data.assignments : data.assignments[i].id # EarlierPass

----------------------------------------------------------------------------
(* Event records for the leaderboard *)

Sustainability == "Sustainability"
Health == "Health"

\* the criteria of an event with both tracks: two general ones, and the
\* criterion addOrgCategory generates for each track
BoardCriteria(w2, wS) ==
    <<Criterion("1", "Completion", Some(1)),
      Criterion("2", "Originality", w2),
      Criterion("gen-S", Sustainability, wS),
      Criterion("gen-H", Health, Some(1))>>

TaggedProject(i, noShow, categories) ==
    [Project(i, ToString(i), noShow) EXCEPT !.categories = categories]

ScoreOf(k, judgeId, projectId, values) ==
    [Score(k, judgeId, projectId) EXCEPT !.criteria = values]

\* what a judge can have submitted: values under general criteria, under the
\* track criteria, and under a criterion that has been removed since
ValueMaps ==
    { [c \in {} |-> 0],
      ("1" :> 3),
      ("1" :> 2) @@ ("2" :> 1),
      ("1" :> 1) @@ ("gen-S" :> 3),
      ("1" :> 2) @@ ("gen-S" :> 1) @@ ("gen-H" :> 3),
      ("1" :> 3) @@ ("removed" :> 3) }

\* all (judge, target) keys in a fixed order; target np + 1 is a project
\* that has been removed
KeyList(np) == [k \in 1..(2 * (np + 1)) |-> <<((k - 1) \div (np + 1)) + 1,
                                             ((k - 1) % (np + 1)) + 1>>]

TargetId(np, t) == IF t <= np THEN ProjectIds[t] ELSE "removed"

ScopeValues(j, t) ==
    ("1" :> (((j + t) % 3) + 1)) @@ ("gen-S" :> (((j * t) % 3) + 1))

\* projects with any flag and tagging, scored by any set of (judge, target)
ScopeConfig(d) ==
    \E np \in 1..MaxProjects :
        \E flags \in [1..np -> {Some(FALSE), Some(TRUE)}],
           tags \in [1..np -> {<<"General">>, <<"General", Sustainability>>}],
           scored \in SUBSET {KeyList(np)[k] : k \in DOMAIN KeyList(np)} :
            LET keys == SelectSeq(KeyList(np), LAMBDA key : key \in scored)
            IN  d = [StoredEvent EXCEPT
                        !.organizerCategories = <<Sustainability, Health>>,
                        !.criteria = BoardCriteria(Some(2), Some(3)),
                        !.projects = [i \in 1..np |->
                                         TaggedProject(i, flags[i], tags[i])],
                        !.scores = [k \in DOMAIN keys |->
                                       ScoreOf(k, DEFAULT_JUDGES[keys[k][1]].id,
                                               TargetId(np, keys[k][2]),
                                               ScopeValues(keys[k][1], keys[k][2]))]]

\* a tagged and an untagged project, three score records with any values,
\* the tracks registered or not, the weights set or missing
CriteriaConfig(d) ==
    \E m1 \in ValueMaps, m2 \in ValueMaps, m3 \in ValueMaps,
       cats \in {<<>>, <<Sustainability>>, <<Sustainability, Health>>},
       w2 \in {None, Some(2)}, wS \in {Some(1), Some(3)} :
        d = [StoredEvent EXCEPT
                !.organizerCategories = cats,
                !.criteria = BoardCriteria(w2, wS),
                !.projects = <<TaggedProject(1, Some(FALSE), <<"General", Sustainability>>),
                               TaggedProject(2, None, <<"General">>)>>,
                !.scores = <<ScoreOf(1, DEFAULT_JUDGES[1].id, ProjectIds[1], m1),
                             ScoreOf(2, DEFAULT_JUDGES[1].id, ProjectIds[2], m2),
                             ScoreOf(3, DEFAULT_JUDGES[2].id, ProjectIds[1], m3)>>]

\* values 1..3 under the five default criteria that add up to total (5..15)
Spread(total) ==
    [c \in {DEFAULT_CRITERIA[k].id : k \in DOMAIN DEFAULT_CRITERIA} |->
        LET k == CHOOSE i \in DOMAIN DEFAULT_CRITERIA : DEFAULT_CRITERIA[i].id = c
            extra == total - 5 - 2 * (k - 1)
        IN  1 + (IF extra >= 2 THEN 2 ELSE IF extra = 1 THEN 1 ELSE 0)]

\* the score records of judge j for the projects whose total is not 0
ScoresBy(j, totals) ==
    LET scoredIdx == SelectSeq(Indices(totals), LAMBDA i : totals[i] # 0)
    IN  [k \in DOMAIN scoredIdx |->
            ScoreOf(10 * j + scoredIdx[k], DEFAULT_JUDGES[j].id,
                    ProjectIds[scoredIdx[k]], Spread(totals[scoredIdx[k]]))]

PlainProjects(n) == [i \in 1..n |-> TaggedProject(i, Some(FALSE), <<"General">>)]

\* two judges over the same projects: the first scores all of them, the
\* second any of them, with equal and unequal totals
RankingConfig(d) ==
    \E n \in 1..MaxScores :
        \E t1 \in [1..n -> {6, 9, 12}], t2 \in [1..n -> {0, 6, 12}] :
            d = [StoredEvent EXCEPT
                    !.projects = PlainProjects(n),
                    !.scores = ScoresBy(1, t1) \o ScoresBy(2, t2)]

\* one judge's totals over six or seven projects
Ladders ==
    { <<15, 14, 13, 12, 11, 10, 9>>, <<9, 10, 11, 12, 13, 14, 15>>,
      <<15, 15, 13, 13, 13, 10, 9>>, <<12, 12, 11, 11, 10, 10, 9>>,
      <<9, 9, 9, 9, 9, 9>>, <<7, 15, 7, 12, 7, 12, 5>> }

LadderConfig(d) ==
    \E totals \in Ladders, second \in {<<>>, <<6, 0, 9>>} :
        d = [StoredEvent EXCEPT
                !.projects = PlainProjects(Len(totals)),
                !.scores = ScoresBy(1, totals) \o ScoresBy(2, second)]

BoardConfig(d) ==
    ScopeConfig(d) \/ CriteriaConfig(d) \/ RankingConfig(d) \/ LadderConfig(d)

InitBoard ==
    /\ BoardConfig(data)
    /\ result = None
    /\ statuses = None
    /\ assignRounds = 3
    /\ IdlePass

NextBoard ==
    \/ renderDashboard
    \/ setActiveCategory

SpecBoard == InitBoard /\ [][NextBoard]_vars

----------------------------------------------------------------------------
(* Claims about calculateLeaderboard, checked under SpecBoard *)

Board == leaderboard[1]
Filter == activeCategory

ProjectOf(projectId) ==
    data.projects[CHOOSE i \in DOMAIN data.projects : data.projects[i].id = projectId]

Tagged(p, category) == \E i \in DOMAIN p.categories : p.categories[i] = category

CategoryScoped(c) ==
    \E i \in DOMAIN data.organizerCategories : data.organizerCategories[i] = c.name

Contributes(c) == ~CategoryScoped(c) \/ (Filter # None /\ c.name = Filter[1])

CriterionWeight(c) == IF c.weight = None THEN 1 ELSE c.weight[1]

\* the contribution of criterion c to score record s
Contribution(s, c) ==
    IF c.id \in DOMAIN s.criteria /\ Contributes(c)
    THEN s.criteria[c.id] * CriterionWeight(c)
    ELSE 0

ExpectedRaw(s) ==
    Sum([i \in DOMAIN data.criteria |-> Contribution(s, data.criteria[i])])

RecordsOf(projectId) ==
    {k \in DOMAIN data.scores : data.scores[k].projectId = projectId}

ExpectedRawSum(projectId) ==
    Sum([k \in RecordsOf(projectId) |-> ExpectedRaw(data.scores[k])])

\* the score records without the values given under criteria that do not
\* contribute
WithoutExcluded ==
    [k \in DOMAIN data.scores |->
        [data.scores[k] EXCEPT !.criteria =
            [id \in {x \in DOMAIN @ :
                        \A i \in DOMAIN data.criteria :
                            data.criteria[i].id = x => Contributes(data.criteria[i])}
             |-> @[id]]]]

\* C15: a criterion contributes to the raw totals iff it is general or its
\* name equals the active filter.  Each row's raw total is the sum of the
\* contributions of exactly those criteria; with a filter only projects
\* tagged with it have a row; and the values given under the other
\* category-scoped criteria change nothing in the leaderboard.
C15_CategoryCriteria ==
    leaderboard # None =>
        /\ \A r \in DOMAIN Board :
              /\ Board[r].timesJudged > 0 =>
                    Board[r].rawAvg.num * Board[r].timesJudged
                        = ExpectedRawSum(Board[r].projectId) * Board[r].rawAvg.den
              /\ Filter # None => Tagged(ProjectOf(Board[r].projectId), Filter[1])
        /\ Board = calculateLeaderboard(data.projects, WithoutExcluded, data.criteria,
                                        data.organizerCategories, Filter)

C15_Witness ==
    /\ leaderboard # None
    /\ Filter = Some(Sustainability)
    /\ \E i \in DOMAIN data.organizerCategories : data.organizerCategories[i] = Health
    /\ \E r \in DOMAIN Board :
          \E k \in RecordsOf(Board[r].projectId) :
              /\ {"gen-S", "gen-H"} \subseteq DOMAIN data.scores[k].criteria
              /\ ExpectedRaw(data.scores[k]) > data.scores[k].criteria["1"]

\* a project is in scope unless it is a no-show or, under a filter, not
\* tagged with the filter's category
InScope(p) == p.noShow # Some(TRUE) /\ (Filter # None => Tagged(p, Filter[1]))

InScopeIds == {data.projects[i].id : i \in {k \in DOMAIN data.projects :
                                               InScope(data.projects[k])}}

ScoresInScope == SelectSeq(data.scores, LAMBDA sc : sc.projectId \in InScopeIds)

\* C16: the rows are exactly the in-scope projects, each once; an in-scope
\* project without scores has a row of zeros; and the score records of
\* out-of-scope or unknown projects affect no row.
C16_RowsAreInScopeProjects ==
    leaderboard # None =>
        /\ {Board[r].projectId : r \in DOMAIN Board} = InScopeIds
        /\ \A r1, r2 \in DOMAIN Board :
              Board[r1].projectId = Board[r2].projectId => r1 = r2
        /\ \A r \in DOMAIN Board :
              RecordsOf(Board[r].projectId) = {} =>
                  /\ Board[r].timesJudged = 0
                  /\ Board[r].rankPoints = 0
                  /\ Board[r].rawAvg.num = 0
        /\ Board = calculateLeaderboard(data.projects, ScoresInScope, data.criteria,
                                        data.organizerCategories, Filter)

C16_Witness ==
    /\ leaderboard # None
    /\ Filter # None
    /\ \E r \in DOMAIN Board : RecordsOf(Board[r].projectId) = {}
    /\ \E i \in DOMAIN data.projects :
          /\ data.projects[i].noShow # Some(TRUE)
          /\ ~InScope(data.projects[i])
          /\ RecordsOf(data.projects[i].id) # {}
    /\ RecordsOf("removed") # {}

\* the in-scope score records of the judge of record k
SameJudge(k) ==
    {k2 \in DOMAIN data.scores : /\ data.scores[k2].judgeId = data.scores[k].judgeId
                                 /\ data.scores[k2].projectId \in InScopeIds}

\* competition ranking: one more than the number of strictly higher totals
CompetitionRank(k) ==
    1 + Cardinality({k2 \in SameJudge(k) :
                        ExpectedRaw(data.scores[k2]) > ExpectedRaw(data.scores[k])})

PointsTable(rank) == IF rank <= 5 THEN 6 - rank ELSE 0

ExpectedPoints(projectId) ==
    Sum([k \in RecordsOf(projectId) |-> PointsTable(CompetitionRank(k))])

RowOf(projectId) == Board[CHOOSE r \in DOMAIN Board : Board[r].projectId = projectId]

\* one judge alone has scored, and gave a, b, c the totals 9, 6, 6
WorkedExample(a, b, c) ==
    /\ Len(data.scores) = 3
    /\ \A k \in DOMAIN data.scores : data.scores[k].judgeId = data.scores[1].judgeId
    /\ {a, b, c} \subseteq InScopeIds
    /\ \E ka \in RecordsOf(a), kb \in RecordsOf(b), kc \in RecordsOf(c) :
          /\ {ka, kb, kc} = DOMAIN data.scores
          /\ ExpectedRaw(data.scores[ka]) = 9
          /\ ExpectedRaw(data.scores[kb]) = 6
          /\ ExpectedRaw(data.scores[kc]) = 6

\* C17: within a judge's in-scope scores the points follow competition
\* ranking: the rank of a score is 1 plus the number of that judge's scores
\* with a strictly higher raw total, ties share rank and points, and the
\* points are 5,4,3,2,1 for ranks 1..5 and 0 beyond.  Totals 9, 6, 6 from one
\* judge give 5, 4 and 4 points, and nobody 3.
C17_CompetitionRanking ==
    leaderboard # None =>
        /\ \A r \in DOMAIN Board :
              Board[r].rankPoints = ExpectedPoints(Board[r].projectId)
        /\ \A a, b, c \in InScopeIds :
              WorkedExample(a, b, c) =>
                  /\ RowOf(a).rankPoints = 5
                  /\ RowOf(b).rankPoints = 4
                  /\ RowOf(c).rankPoints = 4
                  /\ \A r \in DOMAIN Board : Board[r].rankPoints # 3

C17_Witness ==
    /\ leaderboard # None
    /\ \E a, b, c \in InScopeIds : a # b /\ b # c /\ a # c /\ WorkedExample(a, b, c)

\* a judge's seven scores with ties, the last of them beyond rank 5
C17_WitnessBeyondFifth ==
    /\ leaderboard # None
    /\ \E k \in DOMAIN data.scores :
          /\ CompetitionRank(k) > 5
          /\ RowOf(data.scores[k].projectId).rankPoints = 0
    /\ \E k1, k2 \in DOMAIN data.scores :
          /\ k1 # k2
          /\ k2 \in SameJudge(k1)
          /\ CompetitionRank(k1) = CompetitionRank(k2)
          /\ CompetitionRank(k1) = 3

KnownCriterion(id) == \E i \in DOMAIN data.criteria : data.criteria[i].id = id

CriterionById(id) ==
    data.criteria[CHOOSE i \in DOMAIN data.criteria : data.criteria[i].id = id]

\* value * weight for each id in the record that names an included
\* criterion, a missing weight counting as 1; nothing for any other id
WeightedSum(s) ==
    Sum([id \in DOMAIN s.criteria |->
            IF KnownCriterion(id) /\ Contributes(CriterionById(id))
            THEN s.criteria[id] * (IF CriterionById(id).weight = None THEN 1
                                   ELSE CriterionById(id).weight[1])
            ELSE 0])

InScopeRecords == {k \in DOMAIN data.scores : data.scores[k].projectId \in InScopeIds}

\* C18: for every score record of an in-scope project the raw total used is
\* the sum of value * weight over exactly the included criteria present in
\* the record, a missing weight counting as 1; values under excluded or
\* unknown criterion ids add nothing.
C18_WeightedRawTotal ==
    leaderboard # None =>
        LET included == includedCriteriaIds(data.criteria, data.organizerCategories,
                                            Filter)
            js == judgeScores(relevantProjects(data.projects, Filter), data.scores,
                              data.criteria, included)
        IN  /\ \A k \in InScopeRecords :
                  LET s == data.scores[k]
                  IN  /\ s.judgeId \in DOMAIN js
                      /\ \E i \in DOMAIN js[s.judgeId] :
                            /\ js[s.judgeId][i].projectId = s.projectId
                            /\ js[s.judgeId][i].rawScore = WeightedSum(s)
            /\ \A r \in DOMAIN Board :
                  Board[r].timesJudged = 1 =>
                      \A k \in RecordsOf(Board[r].projectId) :
                          /\ Board[r].rawAvg.den = 1
                          /\ Board[r].rawAvg.num = WeightedSum(data.scores[k])

C18_Witness ==
    /\ leaderboard # None
    /\ \E k \in InScopeRecords :
          /\ "2" \in DOMAIN data.scores[k].criteria
          /\ CriterionById("2").weight = None
    /\ \E k \in InScopeRecords : "removed" \in DOMAIN data.scores[k].criteria
    /\ \E k \in InScopeRecords :
          /\ "gen-S" \in DOMAIN data.scores[k].criteria
          /\ Contributes(CriterionById("gen-S"))
          /\ CriterionById("gen-S").weight = Some(3)
          /\ RowOf(data.scores[k].projectId).timesJudged = 1

\* the judges who scored the project
JudgesOf(projectId) == {data.scores[k].judgeId : k \in RecordsOf(projectId)}

\* the record judge j submitted for the project (score keys are unique)
RecordBy(j, projectId) ==
    CHOOSE k \in RecordsOf(projectId) : data.scores[k].judgeId = j

UniqueScoreKeys ==
    \A k1, k2 \in DOMAIN data.scores :
        (/\ data.scores[k1].judgeId = data.scores[k2].judgeId
         /\ data.scores[k1].projectId = data.scores[k2].projectId) => k1 = k2

\* C19: in each row rankPoints is the sum over the judges who scored the
\* project of the points their ranking gives it, timesJudged the number of
\* score records of the project, and rawAvg the sum of their raw totals
\* divided by timesJudged (0 without records); with unique score keys
\* 0 <= rankPoints <= 5 * timesJudged.
C19_RowAggregates ==
    leaderboard # None =>
        \A r \in DOMAIN Board :
            LET row == Board[r]
                pid == row.projectId
            IN  /\ row.timesJudged = Cardinality(RecordsOf(pid))
                /\ UniqueScoreKeys =>
                      /\ row.rankPoints =
                            Sum([j \in JudgesOf(pid) |->
                                    PointsTable(CompetitionRank(RecordBy(j, pid)))])
                      /\ 0 <= row.rankPoints
                      /\ row.rankPoints <= 5 * row.timesJudged
                /\ row.rawAvg.den > 0
                /\ IF row.timesJudged = 0 THEN row.rawAvg.num = 0
                   ELSE row.rawAvg.num * row.timesJudged
                            = ExpectedRawSum(pid) * row.rawAvg.den

C19_Witness ==
    /\ leaderboard # None
    /\ UniqueScoreKeys
    /\ \E r \in DOMAIN Board :
          /\ Board[r].timesJudged = 2
          /\ Board[r].rawAvg.den = 2
          /\ Board[r].rankPoints = 9
    /\ \E r \in DOMAIN Board : Board[r].timesJudged = 1 /\ Board[r].rankPoints < 5

\* the raw average of row a is at least / more than that of row b
AvgAtLeast(a, b) == a.rawAvg.num * b.rawAvg.den >= b.rawAvg.num * a.rawAvg.den
AvgAbove(a, b) == a.rawAvg.num * b.rawAvg.den > b.rawAvg.num * a.rawAvg.den

\* C20: the returned sequence is ordered by descending rankPoints and, among
\* rows with equal rankPoints, by descending rawAvg: for every adjacent pair
\* (r, s), r.rankPoints > s.rankPoints, or they are equal and
\* r.rawAvg >= s.rawAvg.
C20_SortedByPointsThenAverage ==
    leaderboard # None =>
        \A r \in DOMAIN Board :
            (r + 1) \in DOMAIN Board =>
                \/ Board[r].rankPoints > Board[r + 1].rankPoints
                \/ /\ Board[r].rankPoints = Board[r + 1].rankPoints
                   /\ AvgAtLeast(Board[r], Board[r + 1])

C20_Witness ==
    /\ leaderboard # None
    /\ Len(Board) >= 3
    /\ Board[1].rankPoints > Board[2].rankPoints
    /\ Board[2].rankPoints = Board[3].rankPoints
    /\ AvgAbove(Board[2], Board[3])
    /\ Board[1].projectId = data.projects[3].id
    /\ Board[2].projectId = data.projects[2].id

\* what a fresh call on the record and the filter of this state returns
Recomputed ==
    calculateLeaderboard(data.projects, data.scores, data.criteria,
                         data.organizerCategories, activeCategory)

----------------------------------------------------------------------------
(* ProjectManager.tsx: the no-show checkbox of the project table *)

\* updateProjectField(id, 'noShow', checked): the record changes, so what an
\* earlier render of the dashboard computed is gone
updateProjectField_noShow ==
    /\ pc # "assigning"
    /\ \E i \in DOMAIN data.projects, checked \in BOOLEAN :
          onChange([data EXCEPT !.projects =
                      [k \in DOMAIN data.projects |->
                          IF data.projects[k].id = data.projects[i].id
                          THEN [data.projects[k] EXCEPT !.noShow = Some(checked)]
                          ELSE data.projects[k]]])
    /\ leaderboard' = None
    /\ statuses' = None
    /\ UNCHANGED <<result, assignRounds, appVars, passVars, alertMsg, activeCategory>>

\* the totals the judges gave: project 1 highest, so that its scores would
\* lower every other project's rank if they entered a ranking
LiveTotals == <<15, 12, 9, 6>>

LiveTables == <<"30", "1", "A1", "30">>

\* an event in which every project has been flagged as a no-show; both
\* judges have scored every project
LiveConfig(d) ==
    \E nj \in {0, MaxJudges} :
        d = [StoredEvent EXCEPT
                !.judges = SubSeq(DEFAULT_JUDGES, 1, nj),
                !.projects = [i \in 1..MaxProjects |->
                                 Project(i, LiveTables[i], Some(TRUE))],
                !.scores = ScoresBy(1, SubSeq(LiveTotals, 1, MaxProjects))
                           \o ScoresBy(2, SubSeq(LiveTotals, 1, MaxProjects))]

InitLive ==
    /\ LiveConfig(data)
    /\ result = None
    /\ statuses = None
    /\ assignRounds \in 1..MaxRounds
    /\ IdlePass

NextLive ==
    \/ updateProjectField_noShow
    \/ generateAssignments_noJudges
    \/ generateAssignments_noProjects
    \/ generateAssignments_begin
    \/ generateAssignments_round
    \/ generateAssignments_end
    \/ renderDashboard

SpecLive == InitLive /\ [][NextLive]_vars

----------------------------------------------------------------------------
(* Claims about the no-show flag, checked under SpecLive *)

Flagged(projectId) == ProjectOf(projectId).noShow = Some(TRUE)

ActiveIds == {data.projects[i].id : i \in {k \in DOMAIN data.projects :
                                              data.projects[k].noShow # Some(TRUE)}}

\* C11: a project whose no-show flag is set is excluded from assignment and
\* ranking, and takes part again once the flag is cleared: the plan of a
\* pass references exactly the projects that are not flagged, and a rendered
\* leaderboard lists exactly those, with rank points in which the scores of
\* flagged projects play no part.
C11_NoShowExcludedUntilCleared ==
    /\ [](pc = "assigning" =>
              \A i \in DOMAIN assignments : ~Flagged(assignments[i].projectId))
    /\ [][(pc = "assigning" /\ pc' = "done") =>
              {data'.assignments[i].projectId : i \in DOMAIN data'.assignments}
                  = ActiveIds']_vars
    /\ [](leaderboard # None =>
              /\ {Board[r].projectId : r \in DOMAIN Board} = ActiveIds
              /\ \A r \in DOMAIN Board :
                    Board[r].rankPoints = ExpectedPoints(Board[r].projectId))

\* every project started flagged: one that is active has had its flag cleared
C11_Witness ==
    /\ pc = "done"
    /\ leaderboard # None
    /\ \E a, b \in DOMAIN data.projects :
          /\ a < b
          /\ data.projects[a].noShow = Some(TRUE)
          /\ RecordsOf(data.projects[a].id) # {}
          /\ data.projects[b].noShow = Some(FALSE)
          /\ RowOf(data.projects[b].id).rankPoints = 10
          /\ \A i \in DOMAIN data.assignments :
                data.assignments[i].projectId = data.projects[b].id
          /\ data.assignments # <<>>

----------------------------------------------------------------------------
(* JudgePortal: scoring and reporting *)

MaxClock == 4

ScoreValues == {1, 2, 3}

ReportType == {"no-show", "cheating"}

\* the criteria the scoring view shows for a project
getRelevantCriteria(project) ==
    SelectSeq(data.criteria,
              LAMBDA c : IF includes(data.organizerCategories, c.name)
                         THEN includes(project.categories, c.name)
                         ELSE TRUE)

\* data.scores.find(s => s.judgeId === activeJudge.id && s.projectId === projectId)
getExistingScore(projectId) ==
    IF activeJudge = None THEN None
    ELSE LET found == SelectSeq(data.scores,
                                LAMBDA s : /\ s.judgeId = activeJudge[1].id
                                           /\ s.projectId = projectId)
         IN  IF found = <<>> THEN None ELSE Some(found[1])

\* the first pending report of the active judge on the project
getExistingReport(projectId) ==
    IF activeJudge = None THEN None
    ELSE LET found == SelectSeq(data.reports,
                                LAMBDA r : /\ r.judgeId = activeJudge[1].id
                                           /\ r.projectId = projectId
                                           /\ r.status = "pending")
         IN  IF found = <<>> THEN None ELSE Some(found[1])

\* the projects listed for the active judge
judgeProjects ==
    IF activeJudge = None THEN <<>>
    ELSE IF Len(data.assignments) > 0
    THEN SelectSeq(data.projects,
                   LAMBDA p : /\ \E i \in DOMAIN data.assignments :
                                    /\ data.assignments[i].judgeId = activeJudge[1].id
                                    /\ data.assignments[i].projectId = p.id
                              /\ ~Truthy(p.noShow))
    ELSE SelectSeq(data.projects, LAMBDA p : ~Truthy(p.noShow))

\* what the portal leaves alone
besidePortal == <<result, statuses, assignRounds, passVars, viewVars,
                  sessionVars, reads>>

\* the judge list of the admin mode: setActiveJudge(j)
setActiveJudge ==
    /\ userRole = Some("ADMIN")
    /\ activeJudge = None
    /\ \E i \in DOMAIN data.judges : activeJudge' = Some(data.judges[i])
    /\ UNCHANGED <<data, events, besidePortal, selectedProject, scoreForm, now, alertMsg>>

\* "Switch User" on the project list: setActiveJudge(null)
switchUser ==
    /\ userRole # Some("JUDGE")
    /\ activeJudge # None
    /\ selectedProject = None
    /\ activeJudge' = None
    /\ UNCHANGED <<data, events, besidePortal, selectedProject, scoreForm, now, alertMsg>>

handleProjectSelect ==
    /\ activeJudge # None
    /\ selectedProject = None
    /\ \E i \in DOMAIN judgeProjects :
          LET p == judgeProjects[i]
              existing == getExistingScore(p.id)
          IN  /\ selectedProject' = Some(p)
              /\ scoreForm' = IF existing # None THEN existing[1].criteria ELSE <<>>
    /\ UNCHANGED <<data, events, besidePortal, activeJudge, now, alertMsg>>

\* setScores(prev => ({ ...prev, [criteriaId]: val }))
handleScoreChange ==
    /\ activeJudge # None
    /\ selectedProject # None
    /\ \E i \in DOMAIN getRelevantCriteria(selectedProject[1]), val \in ScoreValues :
          scoreForm' = (getRelevantCriteria(selectedProject[1])[i].id :> val) @@ scoreForm
    /\ UNCHANGED <<data, events, besidePortal, activeJudge, selectedProject, now, alertMsg>>

\* the record submitScore builds; the note and the timestamp are left out
newScore(id) ==
    [id |-> id, judgeId |-> activeJudge[1].id, projectId |-> selectedProject[1].id,
     criteria |-> scoreForm]

missingCriteria ==
    \E i \in DOMAIN getRelevantCriteria(selectedProject[1]) :
        getRelevantCriteria(selectedProject[1])[i].id \notin DOMAIN scoreForm

submitScore_append ==
    /\ activeJudge # None
    /\ selectedProject # None
    /\ IF missingCriteria
       THEN /\ alertMsg' = Some("Please ensure all criteria have a score selected before submitting.")
            /\ UNCHANGED <<data, events, selectedProject, now>>
       ELSE /\ now < MaxClock
            /\ onChange([data EXCEPT !.scores = Append(@, newScore(ToString(now)))])
            /\ selectedProject' = None
            /\ now' = now + 1
            /\ UNCHANGED alertMsg
    /\ UNCHANGED <<besidePortal, activeJudge, scoreForm>>

\* an incomplete form is refused; otherwise the judge's record for the project
\* is replaced where it stands, or a new record with id Date.now() is pushed
submitScore ==
    /\ activeJudge # None
    /\ selectedProject # None
    /\ IF missingCriteria
       THEN /\ alertMsg' = Some("Please ensure all criteria have a score selected before submitting.")
            /\ UNCHANGED <<data, events, selectedProject, now>>
       ELSE LET existing == getExistingScore(selectedProject[1].id)
            IN  /\ IF existing # None
                   THEN /\ onChange([data EXCEPT !.scores =
                                       [k \in DOMAIN data.scores |->
                                           IF data.scores[k].id = existing[1].id
                                           THEN newScore(existing[1].id)
                                           ELSE data.scores[k]]])
                        /\ UNCHANGED now
                   ELSE /\ now < MaxClock
                        /\ onChange([data EXCEPT !.scores =
                                       Append(@, newScore(ToString(now)))])
                        /\ now' = now + 1
                /\ selectedProject' = None
                /\ UNCHANGED alertMsg
    /\ UNCHANGED <<besidePortal, activeJudge, scoreForm>>

Report(id, judgeId, projectId, type, status) ==
    [id |-> id, judgeId |-> judgeId, projectId |-> projectId, type |-> type,
     status |-> status]

reportIssue_anyStatus ==
    /\ activeJudge # None
    /\ selectedProject # None
    /\ \E type \in ReportType :
          LET own == SelectSeq(data.reports,
                               LAMBDA r : /\ r.judgeId = activeJudge[1].id
                                          /\ r.projectId = selectedProject[1].id)
          IN  IF own # <<>>
              THEN /\ onChange([data EXCEPT !.reports =
                                  [k \in DOMAIN data.reports |->
                                      IF data.reports[k].id = own[1].id
                                      THEN [data.reports[k] EXCEPT !.type = type,
                                                                   !.status = "pending"]
                                      ELSE data.reports[k]]])
                   /\ UNCHANGED now
              ELSE /\ now < MaxClock
                   /\ onChange([data EXCEPT !.reports =
                                  Append(@, Report("rep-" \o ToString(now),
                                                   activeJudge[1].id,
                                                   selectedProject[1].id,
                                                   type, "pending"))])
                   /\ now' = now + 1
    /\ UNCHANGED <<besidePortal, portalVars, alertMsg>>

\* the judge's pending report on the project is removed (same type) or
\* retyped (other type); without one a pending report is pushed
reportIssue ==
    /\ activeJudge # None
    /\ selectedProject # None
    /\ \E type \in ReportType :
          LET existing == getExistingReport(selectedProject[1].id)
          IN  IF existing # None
              THEN /\ IF existing[1].type = type
                      THEN onChange([data EXCEPT !.reports =
                                       SelectSeq(@, LAMBDA r : r.id # existing[1].id)])
                      ELSE onChange([data EXCEPT !.reports =
                                       [k \in DOMAIN data.reports |->
                                           IF data.reports[k].id = existing[1].id
                                           THEN [data.reports[k] EXCEPT !.type = type]
                                           ELSE data.reports[k]]])
                   /\ UNCHANGED now
              ELSE /\ now < MaxClock
                   /\ onChange([data EXCEPT !.reports =
                                  Append(@, Report("rep-" \o ToString(now),
                                                   activeJudge[1].id,
                                                   selectedProject[1].id,
                                                   type, "pending"))])
                   /\ now' = now + 1
    /\ UNCHANGED <<besidePortal, portalVars, alertMsg>>

----------------------------------------------------------------------------
(* LiveDashboard.tsx: the report inbox; PreEventForm: removeJudge.  Both   *)
(* are organizer views: the judge portal is not mounted while they are     *)
(* used, and what the dashboard rendered before the change is gone.        *)

pendingReports == SelectSeq(data.reports, LAMBDA r : r.status = "pending")

\* the other view replaces the portal: its local state is gone
leavePortal ==
    /\ activeJudge' = None
    /\ selectedProject' = None
    /\ scoreForm' = <<>>
    /\ leaderboard' = None
    /\ statuses' = None

besideInbox == <<result, assignRounds, passVars, alertMsg, activeCategory,
                 sessionVars, now, reads>>

verifyPending(projectId) ==
    [k \in DOMAIN data.reports |->
        IF data.reports[k].projectId = projectId /\ data.reports[k].status = "pending"
        THEN [data.reports[k] EXCEPT !.status = "verified"]
        ELSE data.reports[k]]

\* "Verify No Show" on a pending no-show report
confirmNoShow ==
    /\ userRole = Some("ADMIN")
    /\ \E i \in DOMAIN pendingReports :
          LET report == pendingReports[i]
          IN  /\ report.type = "no-show"
              /\ onChange([data EXCEPT
                             !.projects = [k \in DOMAIN data.projects |->
                                             IF data.projects[k].id = report.projectId
                                             THEN [data.projects[k] EXCEPT
                                                      !.noShow = Some(TRUE)]
                                             ELSE data.projects[k]],
                             !.reports = verifyPending(report.projectId)])
    /\ leavePortal
    /\ UNCHANGED besideInbox

\* "Confirm Flag" on a pending cheating report: { ...p, cheating: true }
confirmCheating ==
    /\ userRole = Some("ADMIN")
    /\ \E i \in DOMAIN pendingReports :
          LET report == pendingReports[i]
          IN  /\ report.type = "cheating"
              /\ onChange([data EXCEPT
                             !.projects = [k \in DOMAIN data.projects |->
                                             IF data.projects[k].id = report.projectId
                                             THEN [cheating |-> TRUE] @@ data.projects[k]
                                             ELSE data.projects[k]],
                             !.reports = verifyPending(report.projectId)])
    /\ leavePortal
    /\ UNCHANGED besideInbox

\* "Dismiss" on a pending report
dismissReport ==
    /\ userRole = Some("ADMIN")
    /\ \E i \in DOMAIN pendingReports :
          LET report == pendingReports[i]
          IN  onChange([data EXCEPT !.reports =
                          [k \in DOMAIN data.reports |->
                              IF data.reports[k].id = report.id
                              THEN [data.reports[k] EXCEPT !.status = "dismissed"]
                              ELSE data.reports[k]]])
    /\ leavePortal
    /\ UNCHANGED besideInbox

\* updateField('judges', data.judges.filter(j => j.id !== id))
removeJudge ==
    /\ userRole = Some("ADMIN")
    /\ \E i \in DOMAIN data.judges :
          onChange([data EXCEPT !.judges =
                      SelectSeq(@, LAMBDA j : j.id # data.judges[i].id)])
    /\ leavePortal
    /\ UNCHANGED besideInbox

----------------------------------------------------------------------------
(* The judging phase: the judge portal, the report inbox and the judge list *)

PortalJudges == SubSeq(DEFAULT_JUDGES, 1, 2)

PortalCriteria ==
    <<Criterion("1", "Completion", Some(1)),
      Criterion("gen-S", Sustainability, Some(1))>>

\* two projects without a track: the Sustainability criterion is not theirs
PortalProjects == <<Project(1, "1", Some(FALSE)), Project(2, "30", Some(FALSE))>>

\* nothing assigned yet (every judge sees every project), or a stored plan
PortalPlans ==
    {<<>>,
     <<Assignment(EarlierPass, PortalJudges[1].id, ProjectIds[1]),
       Assignment(EarlierPass, PortalJudges[2].id, ProjectIds[1]),
       Assignment(EarlierPass, PortalJudges[2].id, ProjectIds[2])>>}

\* no score yet, or one submitted at an earlier time
PortalScores ==
    {<<>>,
     <<[id |-> ToString(1), judgeId |-> PortalJudges[1].id,
        projectId |-> ProjectIds[1],
        criteria |-> ("1" :> 2)]>>}

PortalConfig(d) ==
    \E plan \in PortalPlans, given \in PortalScores :
        d = [StoredEvent EXCEPT
                !.judges = PortalJudges,
                !.organizerCategories = <<Sustainability>>,
                !.criteria = PortalCriteria,
                !.projects = PortalProjects,
                !.assignments = plan,
                !.scores = given]

\* a judge logged in: the portal opens on that judge
JudgeSession ==
    /\ events = <<data>>
    /\ activeEventId = Some(data.id)
    /\ \E i \in DOMAIN data.judges :
          /\ userRole = Some("JUDGE")
          /\ loggedInUser = Some([name |-> data.judges[i].name,
                                  id |-> Some(data.judges[i].id)])
          /\ loginName = data.judges[i].name
          /\ loginPhone = data.judges[i].phone
          /\ activeJudge = Some(data.judges[i])
    /\ authStep = "CREDENTIALS"
    /\ selectedRoleForLogin = Some("JUDGE")
    /\ selectedProject = None
    /\ scoreForm = <<>>
    /\ now = StartTime
    /\ reads = <<>>

InitPortal ==
    /\ PortalConfig(data)
    /\ result = None
    /\ statuses = None
    /\ assignRounds = 3
    /\ IdleViews
    /\ (AdminSession \/ JudgeSession)

\* scoring, and the judge list of the planning form edited meanwhile
NextScoring ==
    \/ setActiveJudge
    \/ switchUser
    \/ handleProjectSelect
    \/ handleScoreChange
    \/ submitScore
    \/ removeJudge

SpecScoring == InitPortal /\ [][NextScoring]_vars

\* reporting from the portal, and the organizer's report inbox
NextReports ==
    \/ setActiveJudge
    \/ switchUser
    \/ handleProjectSelect
    \/ reportIssue
    \/ confirmNoShow
    \/ confirmCheating
    \/ dismissReport

SpecReports == InitPortal /\ [][NextReports]_vars

----------------------------------------------------------------------------
(* Claims about the score and judge collections, checked under SpecScoring *)

KeyOf(s) == <<s.judgeId, s.projectId>>

Held(key) == {k \in DOMAIN data.scores : KeyOf(data.scores[k]) = key}

\* the step is a completed submission of the open form
Submitted ==
    /\ submitScore
    /\ selectedProject' = None

OpenKey == <<activeJudge[1].id, selectedProject[1].id>>

\* C22: after any sequence of submissions the score collection holds at most
\* one record per (judgeId, projectId); a re-submission by the same judge for
\* the same project replaces the existing record in place (same id, same
\* position, the new values) and appends nothing, a first submission appends
\* one record, and the records of all other (judge, project) pairs are
\* unchanged.
C22_UpsertByKey ==
    /\ [](\A k1, k2 \in DOMAIN data.scores :
             KeyOf(data.scores[k1]) = KeyOf(data.scores[k2]) => k1 = k2)
    /\ [][Submitted =>
            IF Held(OpenKey) # {}
            THEN /\ Len(data'.scores) = Len(data.scores)
                 /\ \A k \in DOMAIN data.scores :
                       IF k \in Held(OpenKey)
                       THEN /\ data'.scores[k].id = data.scores[k].id
                            /\ KeyOf(data'.scores[k]) = OpenKey
                            /\ data'.scores[k].criteria = scoreForm
                       ELSE data'.scores[k] = data.scores[k]
            ELSE /\ Len(data'.scores) = Len(data.scores) + 1
                 /\ SubSeq(data'.scores, 1, Len(data.scores)) = data.scores
                 /\ KeyOf(data'.scores[Len(data'.scores)]) = OpenKey
                 /\ data'.scores[Len(data'.scores)].criteria = scoreForm]_vars

\* the record stored earlier has been re-submitted with another value, next
\* to a record of another judge
C22_Witness ==
    /\ Len(data.scores) = 2
    /\ data.scores[1].id = ToString(1)
    /\ data.scores[1].criteria = ("1" :> 3)
    /\ data.scores[2].judgeId # data.scores[1].judgeId
    /\ data.scores[2].projectId = data.scores[1].projectId

JudgeIds(d) == {d.judges[i].id : i \in DOMAIN d.judges}

Referenced(d) ==
    {d.scores[k].judgeId : k \in DOMAIN d.scores}
        \cup {d.assignments[k].judgeId : k \in DOMAIN d.assignments}

\* C23: removing a judge does not orphan dependent records: after a step that
\* removes judges from the judge list, no score and no assignment of the
\* record references a removed judge.
C23_NoOrphanAfterRemoveJudge ==
    [][(JudgeIds(data) \ JudgeIds(data')) \cap Referenced(data') = {}]_vars

----------------------------------------------------------------------------
(* Claims about reports, checked under SpecReports *)

Reports == data.reports

ReportIds(d) == {d.reports[k].id : k \in DOMAIN d.reports}

ReportById(d, id) == d.reports[CHOOSE k \in DOMAIN d.reports : d.reports[k].id = id]

Settled(r) == r.status \in {"verified", "dismissed"}

\* the report is the open judge's report on the open project
OwnReport(r) ==
    /\ activeJudge # None
    /\ selectedProject # None
    /\ r.judgeId = activeJudge[1].id
    /\ r.projectId = selectedProject[1].id

\* every report but the listed ones is the same before and after
OnlyChanged(ids) ==
    /\ \A k \in DOMAIN Reports :
          Reports[k].id \notin ids =>
              /\ Reports[k].id \in ReportIds(data')
              /\ ReportById(data', Reports[k].id) = Reports[k]
    /\ \A k \in DOMAIN data'.reports :
          data'.reports[k].id \notin ids => data'.reports[k].id \in ReportIds(data)

PendingOn(projectId) ==
    {Reports[k].id : k \in {i \in DOMAIN Reports :
                               /\ Reports[i].projectId = projectId
                               /\ Reports[i].status = "pending"}}

NoShowAfter(projectId) ==
    \A k \in DOMAIN data'.projects :
        data'.projects[k].id = projectId => data'.projects[k].noShow = Some(TRUE)

\* C24: a report follows the lifecycle pending -> {verified, dismissed}.
\* Every report is pending, verified or dismissed and each judge has at most
\* one pending report per project; a verified or dismissed report stays as it
\* is in every step; reportIssue only creates a pending report of the open
\* judge on the open project, or retypes or removes that judge's pending one;
\* confirmNoShow sets the reported project's no-show flag and turns exactly
\* the pending reports on that project to verified; dismissReport turns
\* exactly one pending report to dismissed.
C24_ReportLifecycle ==
    /\ [](/\ \A k \in DOMAIN Reports :
                Reports[k].status \in {"pending", "verified", "dismissed"}
          /\ \A k1, k2 \in DOMAIN Reports :
                (/\ Reports[k1].status = "pending"
                 /\ Reports[k2].status = "pending"
                 /\ Reports[k1].judgeId = Reports[k2].judgeId
                 /\ Reports[k1].projectId = Reports[k2].projectId) => k1 = k2)
    /\ [][\A k \in DOMAIN Reports :
             Settled(Reports[k]) =>
                 /\ Reports[k].id \in ReportIds(data')
                 /\ ReportById(data', Reports[k].id) = Reports[k]]_vars
    /\ [][reportIssue =>
            \E ids \in SUBSET (ReportIds(data) \cup ReportIds(data')) :
                /\ Cardinality(ids) <= 1
                /\ OnlyChanged(ids)
                /\ \A id \in ids :
                      /\ id \in ReportIds(data) =>
                            /\ OwnReport(ReportById(data, id))
                            /\ ReportById(data, id).status = "pending"
                      /\ id \in ReportIds(data') =>
                            /\ OwnReport(ReportById(data', id))
                            /\ ReportById(data', id).status = "pending"]_vars
    /\ [][confirmNoShow =>
            \E k \in DOMAIN Reports :
                /\ Reports[k].status = "pending"
                /\ Reports[k].type = "no-show"
                /\ NoShowAfter(Reports[k].projectId)
                /\ OnlyChanged(PendingOn(Reports[k].projectId))
                /\ \A id \in PendingOn(Reports[k].projectId) :
                      /\ id \in ReportIds(data')
                      /\ ReportById(data', id) =
                            [ReportById(data, id) EXCEPT !.status = "verified"]]_vars
    /\ [][dismissReport =>
            \E k \in DOMAIN Reports :
                /\ Reports[k].status = "pending"
                /\ OnlyChanged({Reports[k].id})
                /\ Reports[k].id \in ReportIds(data')
                /\ ReportById(data', Reports[k].id) =
                      [Reports[k] EXCEPT !.status = "dismissed"]]_vars

\* a no-show report has been verified and its project flagged, and another
\* report has been dismissed
C24_Witness ==
    /\ \E k \in DOMAIN Reports :
          /\ Reports[k].status = "verified"
          /\ Reports[k].type = "no-show"
          /\ \E i \in DOMAIN data.projects :
                /\ data.projects[i].id = Reports[k].projectId
                /\ data.projects[i].noShow = Some(TRUE)
    /\ \E k \in DOMAIN Reports : Reports[k].status = "dismissed"

----------------------------------------------------------------------------
(* Claims about the rounds of generateAssignments *)

\* the project of the round about to run, and its table number: the leading
\* digits of the label, 0 without any
CurrentProject == activeProjects[projIdx]

NumericTable(label) ==
    CASE label = "1" -> 1
      [] label = "30" -> 30
      [] OTHER -> 0

CurrentTable == NumericTable(CurrentProject.table)

InRound == pc = "assigning" /\ projIdx <= Len(activeProjects)

\* the judges not yet assigned to the current project
Unassigned ==
    {j \in JudgeIds(data) :
        ~\E i \in DOMAIN assignments :
            /\ assignments[i].judgeId = j
            /\ assignments[i].projectId = CurrentProject.id}

Distance(j) == Abs(CurrentTable - judgeLastTable[j])

ProximityBonus(j) ==
    IF Distance(j) <= 10 THEN 100
    ELSE IF judgeLoad[j] = 0 THEN 50
    ELSE 0 - Distance(j)

\* the score without the jitter; the jitter adds a value in [0, 20)
ScoreBeforeJitter(j) == (0 - 50 * judgeLoad[j]) + ProximityBonus(j)

\* some draw of the jitters makes j's score maximal among the candidates
CanBeMaximal(j) ==
    \A k \in Unassigned : ScoreBeforeJitter(j) + (20 - 1) >= ScoreBeforeJitter(k)

Recorded == Len(assignments') = Len(assignments) + 1

Last(plan) == plan[Len(plan)]

\* C25: in every round the candidate set is exactly the judges not yet
\* assigned to the current project (distance never removes a candidate: the
\* round records an assignment whenever such a judge exists), the scores are
\* -50 * load + proximityBonus + jitter with jitter in [0, 20), and the judge
\* recorded is a candidate whose score is maximal under some such jitter.
C25_BestCandidateOfTheRound ==
    [][InRound =>
          /\ Recorded <=> Unassigned # {}
          /\ Recorded =>
                /\ SubSeq(assignments', 1, Len(assignments)) = assignments
                /\ Last(assignments').projectId = CurrentProject.id
                /\ Last(assignments').judgeId \in Unassigned
                /\ CanBeMaximal(Last(assignments').judgeId)]_vars

\* a judge with load 1 has been sent from table 1 to table 30: the jump is
\* penalised but not forbidden
C25_Witness ==
    /\ pc = "assigning"
    /\ \E i, k \in DOMAIN assignments :
          /\ i < k
          /\ assignments[i].judgeId = assignments[k].judgeId
          /\ \E a, b \in DOMAIN activeProjects :
                /\ activeProjects[a].id = assignments[i].projectId
                /\ activeProjects[b].id = assignments[k].projectId
                /\ Abs(NumericTable(activeProjects[a].table)
                       - NumericTable(activeProjects[b].table)) > 10

VisitsOf(j) == {i \in DOMAIN assignments : assignments[i].judgeId = j}

LatestVisit(j) == CHOOSE i \in VisitsOf(j) : \A k \in VisitsOf(j) : k <= i

TableOfProject(projectId) ==
    NumericTable((CHOOSE p \in {activeProjects[i] : i \in DOMAIN activeProjects} :
                     p.id = projectId).table)

\* C26: throughout the pass, each judge's load equals the number of
\* assignments generated for that judge, the loads sum to the number of
\* assignments, and each judge's last table is the numeric table (0 when
\* unparseable) of that judge's most recent assignment, or -999 if the judge
\* has none.
C26_AccumulatorsMatchPlan ==
    pc \in {"assigning", "done"} =>
        /\ DOMAIN judgeLoad = JudgeIds(data)
        /\ DOMAIN judgeLastTable = JudgeIds(data)
        /\ \A j \in JudgeIds(data) :
              /\ judgeLoad[j] = Cardinality(VisitsOf(j))
              /\ judgeLastTable[j] =
                    IF VisitsOf(j) = {} THEN 0 - 999
                    ELSE TableOfProject(assignments[LatestVisit(j)].projectId)
        /\ Sum([j \in JudgeIds(data) |-> judgeLoad[j]]) = Len(assignments)

\* a judge with two visits whose last table is that of the second, at an
\* unparseable label, next to a judge with none
C26_Witness ==
    /\ pc = "assigning"
    /\ \E j, k \in JudgeIds(data) :
          /\ judgeLoad[j] = 2
          /\ judgeLastTable[j] = 0
          /\ TableOfProject(assignments[1].projectId) # 0
          /\ judgeLoad[k] = 0
          /\ judgeLastTable[k] = 0 - 999

----------------------------------------------------------------------------
(* Passes over one more project than MaxProjects, for the load balance *)

BalanceConfig(d) ==
    \E np \in {0, MaxProjects + 1}, nj \in {0, 2} :
        \E tables \in [1..np -> TableLabels] :
            d = [StoredEvent EXCEPT
                    !.judges = SubSeq(DEFAULT_JUDGES, 1, nj),
                    !.projects = [i \in 1..np |-> Project(i, tables[i], Some(FALSE))]]

InitBalance ==
    /\ BalanceConfig(data)
    /\ result = None
    /\ statuses = None
    /\ assignRounds \in 1..MaxRounds
    /\ IdlePass

SpecBalance == InitBalance /\ [][NextAssign]_vars

\* C27: for every outcome of the jitter, whenever some judge still has zero
\* load the judge selected for the round had load at most 1 before the
\* selection; hence no judge has three assignments while another has none.
C27_NoThirdBeforeEveryFirst ==
    /\ [][(InRound /\ Recorded /\ \E k \in JudgeIds(data) : judgeLoad[k] = 0) =>
             judgeLoad[Last(assignments').judgeId] <= 1]_vars
    /\ [](pc \in {"assigning", "done"} =>
             ~\E j, k \in JudgeIds(data) : judgeLoad[j] >= 3 /\ judgeLoad[k] = 0)

\* a judge with two assignments was a candidate for the third project, and
\* the judge without any was selected
C27_Witness ==
    /\ pc = "assigning"
    /\ Len(assignments) = 3
    /\ assignments[1].judgeId = assignments[2].judgeId
    /\ assignments[3].judgeId # assignments[1].judgeId
    /\ assignments[1].projectId # assignments[2].projectId
    /\ assignments[3].projectId \notin {assignments[1].projectId,
                                        assignments[2].projectId}

----------------------------------------------------------------------------
(* App.tsx: the login flow, the MLH dashboard and logout *)

MaxEvents == 2

\* OrganizerRoleType.GENERAL, the generic 'Organizer' slot
RoleGeneral == "Organizer"

\* what the MLH admin types into the creation form
NamesTyped == {"", "Ada"}
PhonesTyped == {"", "555", OwnPhone(1), DefaultJudge(1).phone}

\* the event handleMlhCreateEvent stores: the creator first, then the
\* placeholders of INITIAL_DATA.organizers that are not the generic slot
NewEvent(t, newOrgName, newOrgPhone) ==
    [INITIAL_DATA EXCEPT
        !.id = EventIdAt(t),
        !.organizers =
            <<[name |-> newOrgName, phone |-> newOrgPhone, role |-> RoleGeneral,
               email |-> ""]>>
            \o SelectSeq(INITIAL_DATA.organizers, LAMBDA o : o.role # RoleGeneral),
        !.judges = INITIAL_DATA.judges,
        !.projects = <<>>]

\* what the session handlers leave alone
besideSession == <<statuses, assignRounds, passVars, viewVars, reads>>

\* the role buttons of the first screen
selectRole ==
    /\ userRole = None
    /\ authStep = "ROLE_SELECT"
    /\ \E role \in {"ADMIN", "JUDGE", "HACKER"} : selectedRoleForLogin' = Some(role)
    /\ authStep' = "EVENT_SELECT"
    /\ UNCHANGED <<data, events, result, alertMsg, besideSession, portalVars, now,
                   activeEventId, userRole, loggedInUser, loginName, loginPhone>>

\* "MLH Admin Access" on the first screen
openMlhLogin ==
    /\ userRole = None
    /\ authStep = "ROLE_SELECT"
    /\ authStep' = "MLH_LOGIN"
    /\ UNCHANGED <<data, events, result, alertMsg, besideSession, portalVars, now,
                   activeEventId, userRole, loggedInUser, selectedRoleForLogin,
                   loginName, loginPhone>>

\* the typed user and password are the MLH ones, or they are not
handleMlhLogin ==
    /\ userRole = None
    /\ authStep = "MLH_LOGIN"
    /\ \E matches \in BOOLEAN :
          IF matches
          THEN /\ userRole' = Some("MLH")
               /\ authStep' = "MLH_DASHBOARD"
               /\ UNCHANGED alertMsg
          ELSE /\ alertMsg' = Some("Invalid MLH Credentials")
               /\ UNCHANGED <<userRole, authStep>>
    /\ UNCHANGED <<data, events, result, besideSession, portalVars, now,
                   activeEventId, loggedInUser, selectedRoleForLogin,
                   loginName, loginPhone>>

handleMlhCreateEvent ==
    /\ userRole = Some("MLH")
    /\ \E newEventName \in NamesTyped, newOrgName \in NamesTyped,
          newOrgPhone \in {"", "555"} :
          IF newEventName = "" \/ newOrgName = "" \/ newOrgPhone = ""
          THEN /\ alertMsg' = Some("All fields required")
               /\ UNCHANGED <<events, now>>
          ELSE /\ Len(events) < MaxEvents
               /\ now < MaxClock
               /\ events' = Append(events, NewEvent(now, newOrgName, newOrgPhone))
               /\ now' = now + 1
               /\ alertMsg' = Some("Event created! Includes 15 default judges.")
    /\ UNCHANGED <<data, result, besideSession, portalVars, sessionVars>>

\* an event of the list is picked; a hacker is in at once
handleEventSelection ==
    /\ userRole = None
    /\ authStep = "EVENT_SELECT"
    /\ \E i \in DOMAIN events :
          /\ activeEventId' = Some(events[i].id)
          /\ data' = events[i]
    /\ IF selectedRoleForLogin = Some("HACKER")
       THEN userRole' = Some("HACKER") /\ UNCHANGED authStep
       ELSE authStep' = "CREDENTIALS" /\ UNCHANGED userRole
    /\ UNCHANGED <<events, result, alertMsg, besideSession, portalVars, now,
                   loggedInUser, selectedRoleForLogin, loginName, loginPhone>>

\* the options of the name select: the empty one, then the event's organizers
\* or judges
nameOptions ==
    {""} \cup (IF selectedRoleForLogin = Some("ADMIN")
               THEN {data.organizers[i].name : i \in DOMAIN data.organizers}
               ELSE {data.judges[i].name : i \in DOMAIN data.judges})

onCredentials == userRole = None /\ authStep = "CREDENTIALS" /\ activeEventData # None

setLoginName ==
    /\ onCredentials
    /\ \E name \in nameOptions : loginName' = name
    /\ UNCHANGED <<data, events, result, alertMsg, besideSession, portalVars, now,
                   activeEventId, userRole, loggedInUser, authStep,
                   selectedRoleForLogin, loginPhone>>

setLoginPhone ==
    /\ onCredentials
    /\ \E phone \in PhonesTyped : loginPhone' = phone
    /\ UNCHANGED <<data, events, result, alertMsg, besideSession, portalVars, now,
                   activeEventId, userRole, loggedInUser, authStep,
                   selectedRoleForLogin, loginName>>

find(list, name, phone) ==
    SelectSeq(list, LAMBDA x : x.name = name /\ x.phone = phone)

\* "Log In": the organizer or judge whose name and phone equal the inputs; a
\* judge's portal opens on that judge
handleUserLogin ==
    /\ onCredentials
    /\ selectedRoleForLogin \in {Some("ADMIN"), Some("JUDGE")}
    /\ IF selectedRoleForLogin = Some("ADMIN")
       THEN LET org == find(activeEventData[1].organizers, loginName, loginPhone)
            IN  IF org # <<>>
                THEN /\ userRole' = Some("ADMIN")
                     /\ loggedInUser' = Some([name |-> org[1].name, id |-> None])
                     /\ UNCHANGED <<alertMsg, activeJudge>>
                ELSE /\ alertMsg' = Some("Invalid Organizer Name or Password.")
                     /\ UNCHANGED <<userRole, loggedInUser, activeJudge>>
       ELSE LET judge == find(activeEventData[1].judges, loginName, loginPhone)
            IN  IF judge # <<>>
                THEN /\ userRole' = Some("JUDGE")
                     /\ loggedInUser' = Some([name |-> judge[1].name,
                                              id |-> Some(judge[1].id)])
                     /\ activeJudge' = Some(judge[1])
                     /\ UNCHANGED alertMsg
                ELSE /\ alertMsg' = Some("Invalid Judge Name or Password.")
                     /\ UNCHANGED <<userRole, loggedInUser, activeJudge>>
    /\ UNCHANGED <<data, events, result, besideSession, selectedProject, scoreForm,
                   now, activeEventId, authStep, selectedRoleForLogin,
                   loginName, loginPhone>>

\* the session and the login inputs are reset; the stored result is not
\* among the states handleLogout sets.  No event is active afterwards: the
\* views hold the blank record.
handleLogout ==
    /\ userRole # None
    /\ userRole' = None
    /\ loggedInUser' = None
    /\ activeEventId' = None
    /\ authStep' = "ROLE_SELECT"
    /\ loginName' = ""
    /\ loginPhone' = ""
    /\ data' = INITIAL_DATA
    /\ activeJudge' = None
    /\ selectedProject' = None
    /\ scoreForm' = <<>>
    /\ UNCHANGED <<events, result, alertMsg, besideSession, now, selectedRoleForLogin>>

\* the approved report's "Edit" button: onEdit={() => setResult(null)}
onEdit ==
    /\ userRole = Some("ADMIN")
    /\ result # None
    /\ result[1].passed
    /\ result' = None
    /\ UNCHANGED <<data, events, alertMsg, besideSession, appVars>>

\* an event whose plan passes the stress test, stored earlier
PlannedEvent == EventRecord(5, 2, 2, 2, GoodTimeline, FilledOrganizers)

\* nobody logged in; one planned event is stored
InitApp ==
    /\ events = <<PlannedEvent>>
    /\ data = INITIAL_DATA
    /\ result = None
    /\ statuses = None
    /\ assignRounds = 3
    /\ IdleViews
    /\ activeEventId = None
    /\ userRole = None
    /\ loggedInUser = None
    /\ authStep = "ROLE_SELECT"
    /\ selectedRoleForLogin = None
    /\ loginName = ""
    /\ loginPhone = ""
    /\ QuietViews

NextApp ==
    \/ selectRole
    \/ openMlhLogin
    \/ handleMlhLogin
    \/ handleMlhCreateEvent
    \/ handleEventSelection
    \/ setLoginName
    \/ setLoginPhone
    \/ handleUserLogin
    \/ handleLogout
    \/ handleRunTest
    \/ onEdit

SpecApp == InitApp /\ [][NextApp]_vars

----------------------------------------------------------------------------
(* Claims about the session, checked under SpecApp *)

\* the planning screen of the logged-in organizer shows the approved report
ShowsApprovedReport ==
    /\ userRole = Some("ADMIN")
    /\ activeEventData # None
    /\ result # None
    /\ result[1].passed

\* C28: a stored stress-test result is only ever shown for the event it was
\* computed from: whenever the planning screen shows an approved report for
\* the active event, the stored result is what runStressTest gives on that
\* event, also after logout and login to a different event.
C28_ResultBelongsToActiveEvent ==
    ShowsApprovedReport => result[1] = runStressTest(activeEventData[1])

\* C29: handleUserLogin never establishes an ADMIN or JUDGE session from
\* empty credentials: while nobody is logged in and the name and the password
\* of the login form are empty, no step sets the role to ADMIN or JUDGE,
\* whatever event is selected.
C29_NoSessionFromEmptyCredentials ==
    [][(userRole = None /\ loginName = "" /\ loginPhone = "") =>
          userRole' \notin {Some("ADMIN"), Some("JUDGE")}]_vars

----------------------------------------------------------------------------
(* File imports: ProjectManager's CSV import and PreEventForm's map upload. *)
(* A read is started by the change handler of the file input and completed *)
(* by a callback that closed over the props of the render that started it. *)

MaxReads == 1

\* the map images an event holds at most
MaxImages == 1

besideImport == <<result, assignRounds, passVars, alertMsg, activeCategory,
                  sessionVars, portalVars>>

\* addProject with a name and a table typed in
addProject ==
    /\ userRole = Some("ADMIN")
    /\ now < MaxClock
    /\ \E table \in {"1", "30"} :
          onChange([data EXCEPT !.projects =
                      Append(@, [id |-> ToString(now),
                                 name |-> "Project " \o ToString(now),
                                 table |-> table,
                                 categories |-> <<"General">>,
                                 noShow |-> Some(FALSE)])])
    /\ now' = now + 1
    /\ leaderboard' = None
    /\ statuses' = None
    /\ UNCHANGED <<besideImport, reads>>

\* handleFileUpload: reader.readAsText(file) on a file with that many valid
\* project rows that are not yet among the projects; reader.onload holds
\* the data prop of this render
handleFileUpload ==
    /\ userRole = Some("ADMIN")
    /\ Len(reads) < MaxReads
    /\ \E rows \in {0, 1} :
          reads' = Append(reads, [kind |-> "csv", props |-> data, rows |-> rows])
    /\ UNCHANGED <<data, events, statuses, leaderboard, besideImport, now>>

\* the projects parsed from the rows, with ids `import-${Date.now()}-${i}`
importedProjects(rows) ==
    [i \in 1..rows |->
        [id |-> "import-" \o ToString(now) \o "-" \o ToString(i),
         name |-> "Imported " \o ToString(i),
         table |-> "1",
         categories |-> <<"General">>,
         noShow |-> Some(FALSE)]]

without(list, i) == SubSeq(list, 1, i - 1) \o SubSeq(list, i + 1, Len(list))

\* reader.onload of handleFileUpload
handleFileUpload_onload ==
    \E i \in DOMAIN reads :
        /\ reads[i].kind = "csv"
        /\ reads' = without(reads, i)
        /\ IF reads[i].rows > 0
           THEN /\ now < MaxClock
                /\ onChange([reads[i].props EXCEPT
                               !.projects = @ \o importedProjects(reads[i].rows)])
                /\ now' = now + 1
                /\ alertMsg' = Some("Successfully imported "
                                      \o ToString(reads[i].rows) \o " projects.")
                /\ leaderboard' = None
                /\ statuses' = None
           ELSE /\ alertMsg' = Some("No valid projects found in CSV.")
                /\ UNCHANGED <<data, events, now, leaderboard, statuses>>
        /\ UNCHANGED <<result, assignRounds, passVars, activeCategory,
                       sessionVars, portalVars>>

\* handleMapUpload: one image file is read as a data URL
handleMapUpload ==
    /\ userRole = Some("ADMIN")
    /\ Len(reads) < MaxReads
    /\ Len(data.tableMapImages) < MaxImages
    /\ reads' = Append(reads, [kind |-> "map", props |-> data, rows |-> 1])
    /\ UNCHANGED <<data, events, statuses, leaderboard, besideImport, now>>

\* Promise.all(filePromises).then(...) of handleMapUpload
handleMapUpload_then ==
    \E i \in DOMAIN reads :
        /\ reads[i].kind = "map"
        /\ reads' = without(reads, i)
        /\ onChange([reads[i].props EXCEPT
                       !.tableMapImages = Append(@, "data:image/png;base64")])
        /\ leaderboard' = None
        /\ statuses' = None
        /\ UNCHANGED <<besideImport, now>>

\* the event while projects are registered
ImportConfig(d) ==
    d = [StoredEvent EXCEPT
            !.judges = PortalJudges,
            !.projects = <<Project(1, "30", Some(FALSE))>>]

InitImport ==
    /\ ImportConfig(data)
    /\ result = None
    /\ statuses = None
    /\ assignRounds = 3
    /\ IdlePass

NextImport ==
    \/ handleFileUpload
    \/ handleFileUpload_onload
    \/ handleMapUpload
    \/ handleMapUpload_then
    \/ addProject
    \/ updateProjectField_noShow

SpecImport == InitImport /\ [][NextImport]_vars

IsPrefix(a, b) == Len(a) <= Len(b) /\ SubSeq(b, 1, Len(a)) = a

\* the step completes a read
Completes == Len(reads') < Len(reads)

\* C30: no update to the event record is lost to an asynchronous file
\* import: when the completion callback of a CSV or map-image read applies
\* its update, everything the record held just before is still there (the
\* callback only appends projects or images), so a change made after the
\* read started survives.
C30_NoUpdateLostToImport ==
    [][Completes =>
          /\ IsPrefix(data.projects, data'.projects)
          /\ IsPrefix(data.tableMapImages, data'.tableMapImages)
          /\ data'.judges = data.judges
          /\ data'.scores = data.scores
          /\ data'.assignments = data.assignments
          /\ data'.reports = data.reports]_vars

====
